---- MODULE Spec2Model ----
(***************************************************************************)
(* MyCityWebGL: the world model (the zustand cityStore and the             *)
(* WorldManager/Grid classes) and the scheduler (SimulationManager and     *)
(* GameEngine) as state machines.                                          *)
(*                                                                         *)
(* A run drives one of the two world-model implementations, chosen in     *)
(* Init (impl), so that a property stated over "the world model" is       *)
(* checked against both.  Spec drives the editing and simulation calls,   *)
(* SpecSave the editing calls with save and load, SpecSched the           *)
(* scheduler.                                                             *)
(***************************************************************************)
EXTENDS Integers, Sequences, FiniteSets, TLC

VARIABLES
  impl,        \* "store": cityStore.ts is driven; "world": WorldManager.ts
  tiles,       \* cityStore.tiles: key -> TileData
  buildings,   \* cityStore.buildings: id -> Building
  roads,       \* cityStore.roads: id -> Road
  balance,     \* cityStore.economy.balance
  timers,      \* pending setTimeout(() => calculateUtilities(), 0) callbacks
  nextId,      \* generateId(): the next fresh id
  lastOp,      \* the last call and its result (a removal of an absent id
               \* returns nothing and leaves no trace)
  gridTiles,   \* Grid.tiles of the WorldManager
  wmBuildings, \* WorldManager.buildings
  wmRoads,     \* WorldManager.roads
  scheduler,   \* "SimulationManager" or "GameEngine": whose update is driven
  systems,     \* scheduler: registered system names, in Map insertion order
  enabled,     \* scheduler: the enabled flag of every registered system
  invoked,     \* scheduler: the systems whose update the last tick invoked
  tickFaults,  \* scheduler: the systems whose update raises in the last tick
  tickResult,  \* scheduler: how the last update call ended
  resets,      \* the number of SimulationManager.reset() and
               \* GameEngine.resetGame() calls so far
  gameTime,    \* gameStore.gameTime: day, hour, minute, totalMinutes
  balance24,   \* the fraction of economy.balance, in 24ths (balance holds
               \* its integer part)
  economy,     \* cityStore.economy.income and .expenses
  population,  \* cityStore.population
  zoneDemand,  \* cityStore.zoneDemand
  initialEconomy, \* the module-level object initialEconomy of cityStore:
               \* its income and expenses, and whether cityStore.economy
               \* is this very object (shared)
  lastUpdate,  \* lastUpdateHour of the economy system, lastUpdateDay of the
               \* zoning and population systems
  ran,         \* the systems whose throttled step the last tick applied
  clockLog,    \* the clock of the last tick, and whether the clocks of all
               \* ticks so far were non-decreasing
  roadLayout,  \* TrafficSystem.findPath: the keys of the roads it reads, in
               \* the order of the roads Map
  query,       \* the start and end positions findPath is called with
  pathResult,  \* the PathfindingResult findPath returned, if it was called
  vehicles,    \* TrafficSystem.vehicles, in the order of the Map
  congestionMap, \* TrafficSystem.congestionMap: vehicles counted per cell
  lastSpawnTime, \* TrafficSystem.lastSpawnTime
  trafficLoad, \* the trafficLoad of the roads, by key
  spawnLog,    \* what the spawn step of the last traffic update did
  fixedDelta,  \* GameLoop.fixedDelta in seconds, the delta of every update
  eventBus,    \* EventBus: listeners, the listener Sets, the unsubscribe
               \* closures handed out, eventHistory
  gameLoop     \* GameLoop: its fields, the frame callbacks queued, and the
               \* speed and pause flag of gameStore

worldVars == <<tiles, buildings, roads, balance, timers, nextId,
               lastOp, gridTiles, wmBuildings, wmRoads>>
schedVars == <<scheduler, systems, enabled, invoked, tickFaults, tickResult,
               resets>>
storeVars == <<gameTime, balance24, economy, population, zoneDemand,
               lastUpdate, ran, clockLog>>
simVars == <<storeVars, initialEconomy>>
trafficVars == <<vehicles, congestionMap, lastSpawnTime, trafficLoad, spawnLog,
                 fixedDelta>>
pathVars == <<roadLayout, query, pathResult, trafficVars, eventBus,
              gameLoop>>
vars == <<impl, tiles, buildings, roads, balance, timers, nextId,
          lastOp, gridTiles, wmBuildings, wmRoads, scheduler, systems,
          enabled, invoked, tickFaults, tickResult, resets, gameTime,
          balance24,
          economy, population, zoneDemand, initialEconomy, lastUpdate, ran,
          clockLog,
          roadLayout, query, pathResult, vehicles, congestionMap,
          lastSpawnTime, trafficLoad, spawnLog, fixedDelta, eventBus,
          gameLoop>>

(***************************************************************************)
(* Bounds of the model                                                     *)
(***************************************************************************)
GridW == 3
GridH == 2
MaxIds == 3
MaxWorldIds == 2
MaxTimers == 1
MaxZoned == 1
PowerRadius == 2
WaterRadius == 1
StartingBalance == 4400
MinBalance == 0
Spend == 2195
MaxMinutes == 2160
MaxPending == 2
MaxResets == 1
MaxSubscriptions == 3
MaxPublished == 2
MaxHistoryRun == 103
MaxQueued == 3

(***************************************************************************)
(* Program constants                                                       *)
(***************************************************************************)
roadCost == 10
limit == 3
LandValueRadius == 5
InitialLandValue == 50
NoId == 0

Min(a, b) == IF a <= b THEN a ELSE b
Max(a, b) == IF a >= b THEN a ELSE b
Abs(a) == IF a >= 0 THEN a ELSE 0 - a

\* JavaScript numbers that are not integers are modelled as exact fractions
\* n/d in lowest terms with d > 0
RECURSIVE Gcd(_, _)
Gcd(a, b) == IF b = 0 THEN a ELSE Gcd(b, a % b)

Q(n, d) ==
  LET g == Gcd(Abs(n), Abs(d))
      sign == IF d < 0 THEN 0 - 1 ELSE 1
  IN [n |-> sign * (n \div g), d |-> sign * (d \div g)]

QInt(k) == [n |-> k, d |-> 1]
\* the operations cancel common factors before they multiply, to keep the
\* products small
QAdd(a, b) ==
  LET g == Gcd(a.d, b.d)
  IN Q(a.n * (b.d \div g) + b.n * (a.d \div g), (a.d \div g) * b.d)
QSub(a, b) == QAdd(a, [n |-> 0 - b.n, d |-> b.d])
QMul(a, b) ==
  LET g == Gcd(Abs(a.n), b.d)
      h == Gcd(Abs(b.n), a.d)
  IN Q((a.n \div g) * (b.n \div h), (a.d \div h) * (b.d \div g))
QLess(a, b) ==
  LET g == Gcd(a.d, b.d)
  IN a.n * (b.d \div g) < b.n * (a.d \div g)
QLeq(a, b) == ~QLess(b, a)
QMax(a, b) == IF QLess(a, b) THEN b ELSE a
QMin(a, b) == IF QLess(b, a) THEN b ELSE a
\* Math.floor (\div rounds towards minus infinity)
QFloor(a) == a.n \div a.d

\* clamp(value, min, max) = Math.min(Math.max(value, min), max)
clamp(value, min, max) == QMin(QMax(value, min), max)

\* lerp(a, b, t) = a + (b - a) * t
lerp(a, b, t) == QAdd(a, QMul(QSub(b, a), t))

(***************************************************************************)
(* lib/utils: positions are records, keys are the "x,z" strings, modelled  *)
(* as pairs                                                                *)
(***************************************************************************)
Pos(x, z) == [x |-> x, z |-> z]

gridPositionToKey(position) == <<position.x, position.z>>

keyToGridPosition(key) == [x |-> key[1], z |-> key[2]]

isValidGridPosition(position) ==
  /\ position.x >= 0
  /\ position.x < GridW
  /\ position.z >= 0
  /\ position.z < GridH

GridPositions == {Pos(x, z) : x \in 0..(GridW - 1), z \in 0..(GridH - 1)}

\* positions a caller may pass: cells of the grid and a cell next to it
InputPositions ==
  {Pos(0, 0), Pos(0, 1), Pos(1, 0), Pos(GridW - 1, GridH - 1), Pos(0 - 1, 0)}

\* positions a caller zones: two cells of the grid and a cell next to it
ZonePositions == {Pos(0, 0), Pos(GridW - 1, GridH - 1), Pos(0 - 1, 0)}

(***************************************************************************)
(* types/building.types: DEFAULT_BUILDINGS (the entries the model uses;    *)
(* service radii are scaled to the model's grid)                           *)
(***************************************************************************)
NoZone == "none"
NoService == "none"

DEFAULT_BUILDINGS ==
  [ power_plant_coal |->
      [id |-> "power_plant_coal", category |-> "utility", zone |-> NoZone,
       width |-> 2, depth |-> 2, cost |-> 1500, landValue |-> 0 - 20,
       serviceType |-> "power", serviceRadius |-> PowerRadius,
       maintenanceCost |-> 100, capacity |-> 0, jobs |-> 20],
    water_tower |->
      [id |-> "water_tower", category |-> "utility", zone |-> NoZone,
       width |-> 1, depth |-> 1, cost |-> 800, landValue |-> 0 - 5,
       serviceType |-> "water", serviceRadius |-> WaterRadius,
       maintenanceCost |-> 40, capacity |-> 0, jobs |-> 2],
    building_small_a |->
      [id |-> "building_small_a", category |-> "residential",
       zone |-> "residential",
       width |-> 1, depth |-> 1, cost |-> 100, landValue |-> 5,
       serviceType |-> NoService, serviceRadius |-> 0,
       maintenanceCost |-> 5, capacity |-> 4, jobs |-> 0],
    commercial_skyscraper |->
      [id |-> "commercial_skyscraper", category |-> "commercial",
       zone |-> "commercial",
       width |-> 2, depth |-> 2, cost |-> 2000, landValue |-> 20,
       serviceType |-> NoService, serviceRadius |-> 0,
       maintenanceCost |-> 100, capacity |-> 0, jobs |-> 50] ]

DefinitionIds == DOMAIN DEFAULT_BUILDINGS

\* definitions a caller places by hand (the skyscraper comes by growth)
PlacedDefinitionIds == {"power_plant_coal", "water_tower", "building_small_a"}

\* ids a caller may pass: catalog ids and one the catalog does not hold
InputDefinitionIds == PlacedDefinitionIds \cup {"no_such_building"}

Zones == {"residential", "commercial"}

Rotations == {90}

\* buildingCatalog.find(b => b.id === definitionId)
HasDefinition(definitionId) == definitionId \in DefinitionIds

getBuildingDefinition(definitionId) == DEFAULT_BUILDINGS[definitionId]

\* the cells of a width x depth footprint starting at position
Footprint(position, width, depth) ==
  {Pos(position.x + dx, position.z + dz) :
     dx \in 0..(width - 1), dz \in 0..(depth - 1)}

(***************************************************************************)
(* cityStore.ts                                                            *)
(***************************************************************************)
createInitialTile(x, z) ==
  [position |-> Pos(x, z), type |-> "empty", buildingId |-> NoId,
   roadId |-> NoId, zone |-> NoZone, landValue |-> InitialLandValue]

\* initializeGrid / reset: one initial tile per cell
initializeGrid ==
  [k \in {gridPositionToKey(p) : p \in GridPositions} |->
     createInitialTile(k[1], k[2])]

\* getTile: tiles.get(key), undefined for a key the map does not hold
HasTile(position) == gridPositionToKey(position) \in DOMAIN tiles

getTile(position) == tiles[gridPositionToKey(position)]

\* an availability loop that forgets the road check
TilesAvailableIgnoringRoads(position, definition) ==
  \A p \in Footprint(position, definition.width, definition.depth) :
    /\ gridPositionToKey(p) \in DOMAIN tiles
    /\ tiles[gridPositionToKey(p)].buildingId = NoId

\* placeBuilding's availability loop: every footprint tile exists and holds
\* neither a building nor a road
TilesAvailable(position, definition) ==
  \A p \in Footprint(position, definition.width, definition.depth) :
    /\ HasTile(p)
    /\ getTile(p).buildingId = NoId
    /\ getTile(p).roadId = NoId

\* the road placeBuilding turns the building towards: the first road, in Map
\* order, at the least distance from the building's centre (coordinates
\* doubled to keep the centre integral)
RoadDist4(road, position, definition) ==
  LET dx == 2 * road.position.x - (2 * position.x + definition.width)
      dz == 2 * road.position.z - (2 * position.z + definition.depth)
  IN dx * dx + dz * dz

nearestRoadId(position, definition) ==
  CHOOSE r \in DOMAIN roads :
    \A o \in DOMAIN roads :
      \/ RoadDist4(roads[r], position, definition)
           < RoadDist4(roads[o], position, definition)
      \/ /\ RoadDist4(roads[r], position, definition)
              = RoadDist4(roads[o], position, definition)
         /\ r <= o

finalRotation(position, definition, rotation) ==
  IF /\ definition.category \in {"residential", "commercial", "industrial"}
     /\ DOMAIN roads # {}
  THEN LET nearest == roads[nearestRoadId(position, definition)]
           dx == 2 * nearest.position.x - (2 * position.x + definition.width)
           dz == 2 * nearest.position.z - (2 * position.z + definition.depth)
       IN IF dx * dx + dz * dz < 400
          THEN IF Abs(dx) > Abs(dz)
               THEN (IF dx > 0 THEN 90 ELSE 270)
               ELSE (IF dz > 0 THEN 180 ELSE 0)
          ELSE rotation
  ELSE rotation

newBuilding(id, definitionId, position, rotation) ==
  [id |-> id, definitionId |-> definitionId, position |-> position,
   rotation |-> rotation, level |-> 1, occupancy |-> QInt(0),
   condition |-> 100,
   isActive |-> TRUE, isPowered |-> FALSE, hasWater |-> FALSE]

\* a claim loop that marks the origin tile alone
ClaimOriginTile(ts, id, position, definition) ==
  [k \in DOMAIN ts |->
     IF keyToGridPosition(k) = position
     THEN [ts[k] EXCEPT !.type = "building", !.buildingId = id]
     ELSE ts[k]]

\* the tiles map after the claim loop of placeBuilding
ClaimTiles(ts, id, position, definition) ==
  [k \in DOMAIN ts |->
     IF keyToGridPosition(k)
          \in Footprint(position, definition.width, definition.depth)
     THEN [ts[k] EXCEPT !.type = "building", !.buildingId = id]
     ELSE ts[k]]

\* m with key k set to v (Map.set)
MapSet(m, k, v) == [x \in (DOMAIN m) \cup {k} |-> IF x = k THEN v ELSE m[x]]

\* m without key k (Map.delete)
MapDelete(m, k) == [x \in (DOMAIN m) \ {k} |-> m[x]]

NoOp == [op |-> "none", result |-> "none"]

Op(name, result) == [op |-> name, result |-> result]

\* set({ economy: { ...state.economy, ... } }): from now on cityStore.economy
\* is a new object, no longer the module-level one
replaced(initial) == [initial EXCEPT !.shared = FALSE]

\* a placeBuilding whose availability loop claims each free tile as it goes
PlaceBuildingClaimingAsItChecks(definitionId, position, rotation) ==
  /\ impl = "store"
  /\ IF \/ ~HasDefinition(definitionId)
        \/ balance < getBuildingDefinition(definitionId).cost
     THEN /\ lastOp' = Op("placeBuilding", "null")
          /\ UNCHANGED <<tiles, buildings, roads, balance, initialEconomy,
                         timers, nextId>>
     ELSE LET definition == getBuildingDefinition(definitionId)
              building == newBuilding(nextId, definitionId, position,
                            finalRotation(position, definition, rotation))
              free == {p \in Footprint(position, definition.width,
                                       definition.depth) :
                         /\ HasTile(p)
                         /\ getTile(p).buildingId = NoId
                         /\ getTile(p).roadId = NoId}
          IN IF ~TilesAvailable(position, definition)
             THEN /\ tiles' = [k \in DOMAIN tiles |->
                               IF keyToGridPosition(k) \in free
                               THEN [tiles[k] EXCEPT !.type = "building",
                                                     !.buildingId = nextId]
                               ELSE tiles[k]]
                  /\ lastOp' = Op("placeBuilding", "null")
                  /\ UNCHANGED <<buildings, roads, balance, initialEconomy,
                                 timers, nextId>>
             ELSE /\ nextId <= MaxIds
                  /\ timers < MaxTimers
                  /\ buildings' = MapSet(buildings, building.id, building)
                  /\ tiles' = ClaimTiles(tiles, building.id, position,
                                         definition)
                  /\ balance' = balance - definition.cost
                  /\ initialEconomy' = replaced(initialEconomy)
                  /\ timers' = timers + 1
                  /\ nextId' = nextId + 1
                  /\ lastOp' = Op("placeBuilding", "building")
                  /\ UNCHANGED roads
  /\ UNCHANGED <<impl, gridTiles, wmBuildings, wmRoads>>
  /\ UNCHANGED schedVars
  /\ UNCHANGED storeVars
  /\ UNCHANGED pathVars

PlaceBuilding(definitionId, position, rotation) ==
  /\ impl = "store"
  /\ IF \/ ~HasDefinition(definitionId)
        \/ balance < getBuildingDefinition(definitionId).cost
        \/ ~TilesAvailable(position, getBuildingDefinition(definitionId))
     THEN /\ lastOp' = Op("placeBuilding", "null")
          /\ UNCHANGED <<tiles, buildings, roads, balance, initialEconomy,
                         timers, nextId>>
     ELSE LET definition == getBuildingDefinition(definitionId)
              building == newBuilding(nextId, definitionId, position,
                            finalRotation(position, definition, rotation))
          IN /\ nextId <= MaxIds
             /\ timers < MaxTimers
             /\ buildings' = MapSet(buildings, building.id, building)
             /\ tiles' = ClaimTiles(tiles, building.id, position, definition)
             /\ balance' = balance - definition.cost
             /\ initialEconomy' = replaced(initialEconomy)
             /\ timers' = timers + 1
             /\ nextId' = nextId + 1
             /\ lastOp' = Op("placeBuilding", "building")
             /\ UNCHANGED roads
  /\ UNCHANGED <<impl, gridTiles, wmBuildings, wmRoads>>
  /\ UNCHANGED schedVars
  /\ UNCHANGED storeVars
  /\ UNCHANGED pathVars

\* the tiles map after the release loop of removeBuilding: every tile of the
\* definition's footprint loses its building reference
ReleaseTiles(ts, position, definition) ==
  [k \in DOMAIN ts |->
     IF keyToGridPosition(k)
          \in Footprint(position, definition.width, definition.depth)
     THEN [ts[k] EXCEPT !.type = "empty", !.buildingId = NoId]
     ELSE ts[k]]

RemoveBuilding(buildingId) ==
  /\ impl = "store"
  /\ IF \/ buildingId \notin DOMAIN buildings
        \/ ~HasDefinition(buildings[buildingId].definitionId)
     THEN UNCHANGED <<tiles, buildings, timers, lastOp>>
     ELSE LET building == buildings[buildingId]
              definition == getBuildingDefinition(building.definitionId)
          IN /\ timers < MaxTimers
             /\ buildings' = MapDelete(buildings, buildingId)
             /\ tiles' = ReleaseTiles(tiles, building.position, definition)
             /\ timers' = timers + 1
             /\ lastOp' = Op("removeBuilding", "removed")
  /\ UNCHANGED <<impl, roads, balance, nextId, gridTiles,
                 wmBuildings, wmRoads>>
  /\ UNCHANGED schedVars
  /\ UNCHANGED simVars
  /\ UNCHANGED pathVars

\* placeRoad's neighbours, in the order of Object.entries(neighbors):
\* north, south, east, west
NeighborPositions(position) ==
  << Pos(position.x, position.z - 1), Pos(position.x, position.z + 1),
     Pos(position.x + 1, position.z), Pos(position.x - 1, position.z) >>

\* getNeighborRoadId: t?.roadId
getNeighborRoadId(position) ==
  IF HasTile(position) THEN getTile(position).roadId ELSE NoId

Lists(connections, key) ==
  \E i \in 1..Len(connections) : connections[i].connectedTo = key

\* a neighbour loop that connects the new road and leaves the neighbour alone
RECURSIVE ProcessNeighborsOneWay(_, _, _, _)
ProcessNeighborsOneWay(position, i, rs, conns) ==
  IF i > 4 THEN [roads |-> rs, connections |-> conns]
  ELSE LET neighborId == getNeighborRoadId(NeighborPositions(position)[i])
       IN IF neighborId # NoId /\ neighborId \in DOMAIN rs
          THEN ProcessNeighborsOneWay(position, i + 1, rs,
                 Append(conns, [connectedTo |->
                                  gridPositionToKey(rs[neighborId].position)]))
          ELSE ProcessNeighborsOneWay(position, i + 1, rs, conns)

\* placeRoad's forEach over the neighbours, from index i on: rs is the local
\* roads map, conns the new road's connections so far
RECURSIVE ProcessNeighbors(_, _, _, _)
ProcessNeighbors(position, i, rs, conns) ==
  IF i > 4 THEN [roads |-> rs, connections |-> conns]
  ELSE LET neighborId == getNeighborRoadId(NeighborPositions(position)[i])
       IN IF neighborId # NoId /\ neighborId \in DOMAIN rs
          THEN LET neighborRoad == rs[neighborId]
                   neighborKey == gridPositionToKey(neighborRoad.position)
                   newRoadKey == gridPositionToKey(position)
                   updated ==
                     IF ~Lists(neighborRoad.connections, newRoadKey)
                     THEN [rs EXCEPT ![neighborId].connections =
                             Append(@, [connectedTo |-> newRoadKey])]
                     ELSE rs
               IN ProcessNeighbors(position, i + 1, updated,
                    Append(conns, [connectedTo |-> neighborKey]))
          ELSE ProcessNeighbors(position, i + 1, rs, conns)

\* placeRoad without the funds check of line 358
PlaceRoadOnCredit(position) ==
  /\ impl = "store"
  /\ IF \/ ~HasTile(position)
        \/ getTile(position).buildingId # NoId
        \/ getTile(position).roadId # NoId
     THEN /\ lastOp' = Op("placeRoad", "null")
          /\ UNCHANGED <<tiles, roads, balance, initialEconomy, nextId>>
     ELSE LET roadId == nextId
              done == ProcessNeighbors(position, 1, roads, << >>)
              road == [id |-> roadId, position |-> position, type |-> "road",
                       connections |-> done.connections, trafficLoad |-> 0]
          IN /\ nextId <= MaxIds
             /\ roads' = MapSet(done.roads, road.id, road)
             /\ tiles' = [tiles EXCEPT ![gridPositionToKey(position)] =
                            [@ EXCEPT !.type = "road", !.roadId = road.id]]
             /\ balance' = balance - roadCost
             /\ initialEconomy' = replaced(initialEconomy)
             /\ nextId' = nextId + 1
             /\ lastOp' = Op("placeRoad", "road")
  /\ UNCHANGED <<impl, buildings, timers, gridTiles, wmBuildings,
                 wmRoads>>
  /\ UNCHANGED schedVars
  /\ UNCHANGED storeVars
  /\ UNCHANGED pathVars

PlaceRoad(position) ==
  /\ impl = "store"
  /\ IF \/ ~HasTile(position)
        \/ getTile(position).buildingId # NoId
        \/ getTile(position).roadId # NoId
        \/ balance < roadCost
     THEN /\ lastOp' = Op("placeRoad", "null")
          /\ UNCHANGED <<tiles, roads, balance, initialEconomy, nextId>>
     ELSE LET roadId == nextId
              done == ProcessNeighbors(position, 1, roads, << >>)
              road == [id |-> roadId, position |-> position, type |-> "road",
                       connections |-> done.connections, trafficLoad |-> 0]
          IN /\ nextId <= MaxIds
             /\ roads' = MapSet(done.roads, road.id, road)
             /\ tiles' = [tiles EXCEPT ![gridPositionToKey(position)] =
                            [@ EXCEPT !.type = "road", !.roadId = road.id]]
             /\ balance' = balance - roadCost
             /\ initialEconomy' = replaced(initialEconomy)
             /\ nextId' = nextId + 1
             /\ lastOp' = Op("placeRoad", "road")
  /\ UNCHANGED <<impl, buildings, timers, gridTiles, wmBuildings,
                 wmRoads>>
  /\ UNCHANGED schedVars
  /\ UNCHANGED storeVars
  /\ UNCHANGED pathVars

FilterOut(connections, key) ==
  SelectSeq(connections, LAMBDA c : c.connectedTo # key)

\* removeRoad's forEach over the removed road's connections, from index i on
RECURSIVE DisconnectNeighbors(_, _, _)
DisconnectNeighbors(road, i, rs) ==
  IF i > Len(road.connections) THEN rs
  ELSE LET neighborPos == keyToGridPosition(road.connections[i].connectedTo)
           neighborId == getNeighborRoadId(neighborPos)
       IN IF neighborId # NoId /\ neighborId \in DOMAIN rs
          THEN DisconnectNeighbors(road, i + 1,
                 [rs EXCEPT ![neighborId].connections =
                    FilterOut(@, gridPositionToKey(road.position))])
          ELSE DisconnectNeighbors(road, i + 1, rs)

RemoveRoad(roadId) ==
  /\ impl = "store"
  /\ IF roadId \notin DOMAIN roads
     THEN UNCHANGED <<tiles, roads, lastOp>>
     ELSE LET road == roads[roadId]
              key == gridPositionToKey(road.position)
          IN /\ roads' = MapDelete(DisconnectNeighbors(road, 1, roads), roadId)
             /\ tiles' = IF key \in DOMAIN tiles
                         THEN [tiles EXCEPT ![key] =
                                 [@ EXCEPT !.type = "empty", !.roadId = NoId]]
                         ELSE tiles
             /\ lastOp' = Op("removeRoad", "removed")
  /\ UNCHANGED <<impl, buildings, balance, timers, nextId,
                 gridTiles, wmBuildings, wmRoads>>
  /\ UNCHANGED schedVars
  /\ UNCHANGED simVars
  /\ UNCHANGED pathVars

\* updateBalance: the amount is added to the balance, whatever its sign
UpdateBalance(amount) ==
  /\ impl = "store"
  /\ balance + amount >= MinBalance
  /\ balance' = balance + amount
  /\ initialEconomy' = replaced(initialEconomy)
  /\ lastOp' = Op("updateBalance", "done")
  /\ UNCHANGED <<impl, tiles, buildings, roads, timers, nextId, gridTiles,
                 wmBuildings, wmRoads>>
  /\ UNCHANGED schedVars
  /\ UNCHANGED storeVars
  /\ UNCHANGED pathVars

\* cityStore.setTaxRate
SetTaxRate(zone, rate) ==
  /\ impl = "store"
  /\ economy' = [economy EXCEPT !.taxRates = [@ EXCEPT ![zone] = rate]]
  /\ initialEconomy' = replaced(initialEconomy)
  /\ lastOp' = Op("setTaxRate", "done")
  /\ UNCHANGED <<impl, tiles, buildings, roads, balance, timers, nextId,
                 gridTiles, wmBuildings, wmRoads>>
  /\ UNCHANGED schedVars
  /\ UNCHANGED <<gameTime, balance24, population, zoneDemand, lastUpdate,
                 ran, clockLog>>
  /\ UNCHANGED pathVars

ZonedCount(ts) == Cardinality({k \in DOMAIN ts : ts[k].zone # NoZone})

SetZone(position, zone) ==
  /\ impl = "store"
  /\ IF \/ ~HasTile(position)
        \/ getTile(position).buildingId # NoId
        \/ getTile(position).roadId # NoId
     THEN /\ lastOp' = Op("setZone", "undefined")
          /\ UNCHANGED tiles
     ELSE /\ zone # NoZone /\ getTile(position).zone = NoZone
            => ZonedCount(tiles) < MaxZoned
          /\ tiles' = [tiles EXCEPT ![gridPositionToKey(position)].zone = zone]
          /\ lastOp' = Op("setZone", "undefined")
  /\ UNCHANGED <<impl, buildings, roads, balance, timers, nextId,
                 gridTiles, wmBuildings, wmRoads>>
  /\ UNCHANGED schedVars
  /\ UNCHANGED simVars
  /\ UNCHANGED pathVars

\* Map iteration order: insertion order, which is the order of the ids
RECURSIVE SortedIds(_)
SortedIds(S) ==
  IF S = {} THEN << >>
  ELSE LET m == CHOOSE a \in S : \A b \in S : a <= b
       IN <<m>> \o SortedIds(S \ {m})

\* calculateUtilities' helper: Math.sqrt(dx*dx + dz*dz) <= radius
isInRadius(pos1, pos2, radius) ==
  LET dx == pos1.x - pos2.x
      dz == pos1.z - pos2.z
  IN dx * dx + dz * dz <= radius * radius

\* the ids, in Map order, of the buildings whose definition serves `service`
Sources(bs, service) ==
  SelectSeq(SortedIds(DOMAIN bs),
            LAMBDA b : /\ HasDefinition(bs[b].definitionId)
                       /\ getBuildingDefinition(bs[b].definitionId).serviceType
                            = service)

\* "Reset all statuses"
ResetStatuses(bs) ==
  [b \in DOMAIN bs |-> [bs[b] EXCEPT !.isPowered = FALSE, !.hasWater = FALSE]]

\* "Update Power": powerSources.forEach, from index i on
RECURSIVE UpdatePower(_, _, _)
UpdatePower(bs, sources, i) ==
  IF i > Len(sources) THEN bs
  ELSE LET source == bs[sources[i]]
           radius == getBuildingDefinition(source.definitionId).serviceRadius
       IN IF source.isActive
          THEN UpdatePower(
                 [b \in DOMAIN bs |->
                    IF \/ b = source.id
                       \/ isInRadius(source.position, bs[b].position, radius)
                    THEN [bs[b] EXCEPT !.isPowered = TRUE]
                    ELSE bs[b]],
                 sources, i + 1)
          ELSE UpdatePower(bs, sources, i + 1)

\* a water pass that does not ask whether the source has power
RECURSIVE UpdateWaterUnpowered(_, _, _)
UpdateWaterUnpowered(bs, sources, i) ==
  IF i > Len(sources) THEN bs
  ELSE LET source == bs[sources[i]]
           radius == getBuildingDefinition(source.definitionId).serviceRadius
       IN IF source.isActive
          THEN UpdateWaterUnpowered(
                 [b \in DOMAIN bs |->
                    IF \/ b = source.id
                       \/ isInRadius(source.position, bs[b].position, radius)
                    THEN [bs[b] EXCEPT !.hasWater = TRUE]
                    ELSE bs[b]],
                 sources, i + 1)
          ELSE UpdateWaterUnpowered(bs, sources, i + 1)

\* "Update Water": waterSources.forEach, from index i on
RECURSIVE UpdateWater(_, _, _)
UpdateWater(bs, sources, i) ==
  IF i > Len(sources) THEN bs
  ELSE LET source == bs[sources[i]]
           radius == getBuildingDefinition(source.definitionId).serviceRadius
       IN IF source.isActive /\ source.isPowered
          THEN UpdateWater(
                 [b \in DOMAIN bs |->
                    IF \/ b = source.id
                       \/ isInRadius(source.position, bs[b].position, radius)
                    THEN [bs[b] EXCEPT !.hasWater = TRUE]
                    ELSE bs[b]],
                 sources, i + 1)
          ELSE UpdateWater(bs, sources, i + 1)

\* a recomputation whose water pass comes first and reads the power
\* statuses the run before left
calculateUtilitiesWaterFirst(bs) ==
  LET watered == UpdateWater(
                   [b \in DOMAIN bs |-> [bs[b] EXCEPT !.hasWater = FALSE]],
                   Sources(bs, "water"), 1)
  IN UpdatePower(
       [b \in DOMAIN bs |-> [watered[b] EXCEPT !.isPowered = FALSE]],
       Sources(bs, "power"), 1)

\* calculateUtilities: the buildings map it stores
calculateUtilities(bs) ==
  LET reset == ResetStatuses(bs)
      powered == UpdatePower(reset, Sources(bs, "power"), 1)
  IN UpdateWater(powered, Sources(bs, "water"), 1)

\* a setTimeout(() => get().calculateUtilities(), 0) callback runs
TimerFire ==
  /\ impl = "store"
  /\ timers > 0
  /\ timers' = timers - 1
  /\ buildings' = calculateUtilities(buildings)
  /\ lastOp' = Op("calculateUtilities", "timer")
  /\ UNCHANGED <<impl, tiles, roads, balance, nextId, gridTiles,
                 wmBuildings, wmRoads>>
  /\ UNCHANGED schedVars
  /\ UNCHANGED simVars
  /\ UNCHANGED pathVars

\* growZones' isInRange(pos, sources)
isInRange(bs, position, sources) ==
  \E i \in 1..Len(sources) :
    isInRadius(position, bs[sources[i]].position,
               getBuildingDefinition(bs[sources[i]].definitionId).serviceRadius)

\* growZones' validTiles: zoned tiles that hold neither building nor road
validTiles(ts) ==
  {k \in DOMAIN ts : /\ ts[k].zone # NoZone
                     /\ ts[k].buildingId = NoId
                     /\ ts[k].roadId = NoId}

\* growZones' candidates for a tile
candidates(zone, bal) ==
  {d \in DefinitionIds : /\ getBuildingDefinition(d).zone = zone
                         /\ getBuildingDefinition(d).cost <= bal}

\* the tiles growZones builds on if it meets them: utilities in range and a
\* candidate definition
GrowableTiles(ts, bs, bal) ==
  LET powerSources ==
        SelectSeq(Sources(bs, "power"), LAMBDA b : bs[b].isActive)
      waterSources ==
        SelectSeq(Sources(bs, "water"),
                  LAMBDA b : bs[b].isActive /\ bs[b].isPowered)
  IN {k \in validTiles(ts) :
        /\ isInRange(bs, ts[k].position, powerSources)
        /\ isInRange(bs, ts[k].position, waterSources)
        /\ candidates(ts[k].zone, bal) # {}}

\* the sequences of n distinct elements of S: the first n growable tiles of
\* a shuffle
RECURSIVE Arrangements(_, _)
Arrangements(S, n) ==
  IF n = 0 THEN {<< >>}
  ELSE UNION {{<<e>> \o rest : rest \in Arrangements(S \ {e}, n - 1)} : e \in S}

\* placeBuildingFree(definitionId, position) on the state st = [tiles,
\* buildings, nextId]
placeBuildingFree(st, definitionId, position) ==
  IF ~HasDefinition(definitionId) THEN st
  ELSE LET building == newBuilding(st.nextId, definitionId, position, 0)
           key == gridPositionToKey(position)
       IN [tiles |-> IF key \in DOMAIN st.tiles
                     THEN [st.tiles EXCEPT ![key] =
                             [@ EXCEPT !.type = "building",
                                       !.buildingId = building.id]]
                     ELSE st.tiles,
           buildings |-> MapSet(st.buildings, building.id, building),
           nextId |-> st.nextId + 1]

\* growZones' loop over the chosen tiles, each with the chosen definition
RECURSIVE Grow(_, _, _, _)
Grow(st, order, defs, i) ==
  IF i > Len(order) THEN st
  ELSE Grow(placeBuildingFree(st, defs[i], keyToGridPosition(order[i])),
            order, defs, i + 1)

\* simulateCity: calculateUtilities(), then growZones()
SimulateCity ==
  /\ impl = "store"
  /\ LET bs == calculateUtilities(buildings)
         growable == GrowableTiles(tiles, bs, balance)
         n == Min(limit, Cardinality(growable))
     IN /\ nextId + n - 1 <= MaxIds
        /\ \E order \in Arrangements(growable, n) :
             \E defs \in [1..n -> DefinitionIds] :
               /\ \A i \in 1..n :
                    defs[i] \in candidates(tiles[order[i]].zone, balance)
               /\ LET st == Grow([tiles |-> tiles, buildings |-> bs,
                                  nextId |-> nextId], order, defs, 1)
                  IN /\ tiles' = st.tiles
                     /\ buildings' = st.buildings
                     /\ nextId' = st.nextId
        /\ lastOp' = Op("simulateCity", "grown")
  /\ UNCHANGED <<impl, roads, balance, timers, gridTiles,
                 wmBuildings, wmRoads>>
  /\ UNCHANGED schedVars
  /\ UNCHANGED simVars
  /\ UNCHANGED pathVars

LoadShapes == {"ok", "noTiles", "noBuildings", "noRoads"}

\* the elements of the sequence q, as a set
Range(q) == {q[i] : i \in 1..Len(q)}

\* save: one SerializedBuilding per building
SerializeBuilding(b) ==
  [id |-> b.id, type |-> b.definitionId, position |-> b.position,
   rotation |-> b.rotation, level |-> b.level, occupancy |-> b.occupancy]

\* save: one SerializedRoad per road, its connections turned into positions
SerializeRoad(r) ==
  [id |-> r.id, position |-> r.position,
   connections |-> [i \in 1..Len(r.connections) |->
                      keyToGridPosition(r.connections[i].connectedTo)],
   type |-> r.type]

\* the SaveData that save() builds from the store
SaveDataOf(ts, bs, rs, bal) ==
  [kind |-> "SaveData",
   tiles |-> {ts[k] : k \in DOMAIN ts},
   buildings |-> [i \in 1..Cardinality(DOMAIN bs) |->
                    SerializeBuilding(bs[SortedIds(DOMAIN bs)[i]])],
   roads |-> [i \in 1..Cardinality(DOMAIN rs) |->
                SerializeRoad(rs[SortedIds(DOMAIN rs)[i]])],
   economy |-> [balance |-> bal]]

\* load: tiles keyed by gridPositionToKey(tile.position)
LoadTiles(data) ==
  [k \in {gridPositionToKey(t.position) : t \in data.tiles} |->
     CHOOSE t \in data.tiles : gridPositionToKey(t.position) = k]

\* load: one Building per SerializedBuilding
LoadBuildings(data) ==
  [id \in {b.id : b \in Range(data.buildings)} |->
     LET b == CHOOSE e \in Range(data.buildings) : e.id = id
     IN [id |-> b.id, definitionId |-> b.type, position |-> b.position,
         rotation |-> b.rotation, level |-> b.level,
         occupancy |-> b.occupancy, condition |-> 100, isActive |-> TRUE,
         isPowered |-> FALSE, hasWater |-> FALSE]]

\* load: one Road per SerializedRoad, with no connections
LoadRoads(data) ==
  [id \in {r.id : r \in Range(data.roads)} |->
     LET r == CHOOSE e \in Range(data.roads) : e.id = id
     IN [id |-> r.id, position |-> r.position, type |-> r.type,
         connections |-> << >>, trafficLoad |-> 0]]

\* load(data) for the data that save() returns in this state, whole or with
\* one of its arrays missing; a missing array makes its forEach throw before
\* set() is reached
Load(shape) ==
  /\ impl = "store"
  /\ LET data == SaveDataOf(tiles, buildings, roads, balance)
     IN IF shape # "ok"
        THEN /\ lastOp' = Op("load", "threw")
             /\ UNCHANGED <<tiles, buildings, roads, balance, initialEconomy>>
        ELSE /\ tiles' = LoadTiles(data)
             /\ buildings' = LoadBuildings(data)
             /\ roads' = LoadRoads(data)
             /\ balance' = data.economy.balance
             /\ initialEconomy' = replaced(initialEconomy)
             /\ lastOp' = Op("load", "loaded")
  /\ UNCHANGED <<impl, timers, nextId, gridTiles, wmBuildings, wmRoads>>
  /\ UNCHANGED schedVars
  /\ UNCHANGED storeVars
  /\ UNCHANGED pathVars

(***************************************************************************)
(* game/world/Grid.ts and game/world/WorldManager.ts                       *)
(***************************************************************************)
\* Grid.initialize
GridInitialize ==
  [k \in {gridPositionToKey(p) : p \in GridPositions} |->
     [position |-> keyToGridPosition(k), type |-> "empty",
      buildingId |-> NoId, roadId |-> NoId, zone |-> NoZone,
      landValue |-> InitialLandValue]]

\* Grid.getTile: undefined for an invalid position or a key the map lacks
GridHasTile(g, position) ==
  /\ isValidGridPosition(position)
  /\ gridPositionToKey(position) \in DOMAIN g

\* Grid.isEmpty
isEmpty(g, position) ==
  /\ GridHasTile(g, position)
  /\ g[gridPositionToKey(position)].type = "empty"
  /\ g[gridPositionToKey(position)].buildingId = NoId
  /\ g[gridPositionToKey(position)].roadId = NoId

\* Grid.isAreaEmpty
isAreaEmpty(g, start, width, depth) ==
  \A p \in Footprint(start, width, depth) : isEmpty(g, p)

\* Grid.placeBuilding: the tiles map it leaves
GridPlaceBuilding(g, buildingId, start, width, depth) ==
  IF ~isAreaEmpty(g, start, width, depth) THEN g
  ELSE [k \in DOMAIN g |->
          IF keyToGridPosition(k) \in Footprint(start, width, depth)
          THEN [g[k] EXCEPT !.type = "building", !.buildingId = buildingId]
          ELSE g[k]]

\* Grid.removeBuilding
GridRemoveBuilding(g, buildingId) ==
  [k \in DOMAIN g |->
     IF g[k].buildingId = buildingId
     THEN [g[k] EXCEPT !.type = "empty", !.buildingId = NoId]
     ELSE g[k]]

\* Grid.placeRoad
GridPlaceRoad(g, roadId, position) ==
  IF ~isEmpty(g, position) THEN g
  ELSE [g EXCEPT ![gridPositionToKey(position)] =
          [@ EXCEPT !.type = "road", !.roadId = roadId]]

\* Grid.removeRoad
GridRemoveRoad(g, roadId) ==
  [k \in DOMAIN g |->
     IF g[k].roadId = roadId
     THEN [g[k] EXCEPT !.type = "empty", !.roadId = NoId]
     ELSE g[k]]

\* Math.floor(effect * (1 - distance / radius)) for distance = sqrt(n) and
\* radius = 5: the greatest k with 5k <= effect * (5 - sqrt(n)), less one
\* where the double 1 - 4/5 falls short of 1/5
FalloffChange(effect, n) ==
  LET AtMost(k) ==
        LET a == 5 * effect - 5 * k
        IN IF effect >= 0
           THEN a >= 0 /\ effect * effect * n <= a * a
           ELSE a >= 0 \/ effect * effect * n >= a * a
      exact == CHOOSE k \in (0 - Abs(effect))..Abs(effect) :
                 /\ AtMost(k)
                 /\ \A j \in (k + 1)..Abs(effect) : ~AtMost(j)
  IN IF n = 16 /\ effect > 0 /\ effect % 5 = 0 THEN exact - 1 ELSE exact

\* WorldManager.updateLandValues: the tiles within the radius of center
updateLandValues(g, center, effect) ==
  [k \in DOMAIN g |->
     LET pos == keyToGridPosition(k)
         dx == pos.x - center.x
         dz == pos.z - center.z
         n == dx * dx + dz * dz
     IN IF /\ n <= LandValueRadius * LandValueRadius
           /\ isValidGridPosition(pos)
        THEN [g[k] EXCEPT !.landValue =
                Max(0, Min(100, @ + FalloffChange(effect, n)))]
        ELSE g[k]]

WorldPlaceBuilding(definitionId, position, rotation) ==
  /\ impl = "world"
  /\ LET definition == getBuildingDefinition(definitionId)
     IN IF ~isAreaEmpty(gridTiles, position, definition.width,
                        definition.depth)
        THEN /\ lastOp' = Op("placeBuilding", "null")
             /\ UNCHANGED <<gridTiles, wmBuildings, nextId>>
        ELSE LET building == newBuilding(nextId, definitionId, position,
                                         rotation)
             IN /\ nextId <= MaxWorldIds
                /\ gridTiles' =
                     updateLandValues(
                       GridPlaceBuilding(gridTiles, building.id, position,
                                         definition.width, definition.depth),
                       position, definition.landValue)
                /\ wmBuildings' = MapSet(wmBuildings, building.id, building)
                /\ nextId' = nextId + 1
                /\ lastOp' = Op("placeBuilding", "building")
  /\ UNCHANGED <<impl, tiles, buildings, roads, balance, timers,
                 wmRoads>>
  /\ UNCHANGED schedVars
  /\ UNCHANGED simVars
  /\ UNCHANGED pathVars

WorldRemoveBuilding(buildingId) ==
  /\ impl = "world"
  /\ IF buildingId \notin DOMAIN wmBuildings
     THEN UNCHANGED <<gridTiles, wmBuildings, lastOp>>
     ELSE /\ gridTiles' = GridRemoveBuilding(gridTiles, buildingId)
          /\ wmBuildings' = MapDelete(wmBuildings, buildingId)
          /\ lastOp' = Op("removeBuilding", "true")
  /\ UNCHANGED <<impl, tiles, buildings, roads, balance, timers,
                 nextId, wmRoads>>
  /\ UNCHANGED schedVars
  /\ UNCHANGED simVars
  /\ UNCHANGED pathVars

\* updateRoadConnections' directions, in order
Directions ==
  << [direction |-> "north", dx |-> 0, dz |-> 0 - 1],
     [direction |-> "south", dx |-> 0, dz |-> 1],
     [direction |-> "east", dx |-> 1, dz |-> 0],
     [direction |-> "west", dx |-> 0 - 1, dz |-> 0] >>

\* the connections updateRoadConnections gives one road, from direction i on
RECURSIVE ConnectionsFrom(_, _, _)
ConnectionsFrom(road, roadPositions, i) ==
  IF i > Len(Directions) THEN << >>
  ELSE LET d == Directions[i]
           neighborKey == gridPositionToKey(
                            Pos(road.position.x + d.dx, road.position.z + d.dz))
       IN IF neighborKey \in roadPositions
          THEN <<[direction |-> d.direction, connectedTo |-> neighborKey]>>
                 \o ConnectionsFrom(road, roadPositions, i + 1)
          ELSE ConnectionsFrom(road, roadPositions, i + 1)

\* WorldManager.updateRoadConnections
updateRoadConnections(rs) ==
  LET roadPositions == {gridPositionToKey(rs[r].position) : r \in DOMAIN rs}
  IN [r \in DOMAIN rs |->
        [rs[r] EXCEPT !.connections = ConnectionsFrom(rs[r], roadPositions, 1)]]

WorldPlaceRoad(position) ==
  /\ impl = "world"
  /\ IF ~GridHasTile(gridTiles, position) \/ ~isEmpty(gridTiles, position)
     THEN /\ lastOp' = Op("placeRoad", "null")
          /\ UNCHANGED <<gridTiles, wmRoads, nextId>>
     ELSE LET road == [id |-> nextId, position |-> position, type |-> "road",
                       connections |-> << >>, trafficLoad |-> 0]
          IN /\ nextId <= MaxWorldIds
             /\ gridTiles' = GridPlaceRoad(gridTiles, road.id, position)
             /\ wmRoads' = updateRoadConnections(MapSet(wmRoads, road.id, road))
             /\ nextId' = nextId + 1
             /\ lastOp' = Op("placeRoad", "road")
  /\ UNCHANGED <<impl, tiles, buildings, roads, balance, timers,
                 wmBuildings>>
  /\ UNCHANGED schedVars
  /\ UNCHANGED simVars
  /\ UNCHANGED pathVars

WorldRemoveRoad(roadId) ==
  /\ impl = "world"
  /\ IF roadId \notin DOMAIN wmRoads
     THEN UNCHANGED <<gridTiles, wmRoads, lastOp>>
     ELSE /\ gridTiles' = GridRemoveRoad(gridTiles, roadId)
          /\ wmRoads' = updateRoadConnections(MapDelete(wmRoads, roadId))
          /\ lastOp' = Op("removeRoad", "true")
  /\ UNCHANGED <<impl, tiles, buildings, roads, balance, timers,
                 nextId, wmBuildings>>
  /\ UNCHANGED schedVars
  /\ UNCHANGED simVars
  /\ UNCHANGED pathVars

\* WorldManager.setZone -> Grid.setZone
WorldSetZone(position, zone) ==
  /\ impl = "world"
  /\ IF \/ ~GridHasTile(gridTiles, position)
        \/ gridTiles[gridPositionToKey(position)].buildingId # NoId
        \/ gridTiles[gridPositionToKey(position)].roadId # NoId
     THEN /\ lastOp' = Op("setZone", "false")
          /\ UNCHANGED gridTiles
     ELSE /\ zone # NoZone /\ gridTiles[gridPositionToKey(position)].zone = NoZone
            => ZonedCount(gridTiles) < MaxZoned
          /\ gridTiles' =
               [gridTiles EXCEPT ![gridPositionToKey(position)].zone = zone]
          /\ lastOp' = Op("setZone", "true")
  /\ UNCHANGED <<impl, tiles, buildings, roads, balance, timers,
                 nextId, wmBuildings, wmRoads>>
  /\ UNCHANGED schedVars
  /\ UNCHANGED simVars
  /\ UNCHANGED pathVars

\* WorldManager.serialize: Grid.serialize(), getAllBuildings(), getAllRoads()
WorldSnapshot(g, bs, rs) ==
  [kind |-> "world",
   tiles |-> {g[k] : k \in DOMAIN g},
   buildings |-> [i \in 1..Cardinality(DOMAIN bs) |->
                    bs[SortedIds(DOMAIN bs)[i]]],
   roads |-> [i \in 1..Cardinality(DOMAIN rs) |->
                rs[SortedIds(DOMAIN rs)[i]]]]

\* Grid.deserialize on present tiles: clear, then one entry per tile
GridDeserialize(data) ==
  [k \in {gridPositionToKey(t.position) : t \in data.tiles} |->
     CHOOSE t \in data.tiles : gridPositionToKey(t.position) = k]

\* a Map filled from an array of entities by id
ById(entities) ==
  [id \in {e.id : e \in Range(entities)} |->
     CHOOSE e \in Range(entities) : e.id = id]

EmptyMap == [x \in {} |-> NoId]

\* WorldManager.deserialize(data) for the data that serialize() returns in
\* this state, whole or with one of its arrays missing.  Each step clears its
\* map before it reads its array, and the missing array's forEach throws.
WorldDeserialize(shape) ==
  /\ impl = "world"
  /\ LET data == WorldSnapshot(gridTiles, wmBuildings, wmRoads)
     IN /\ gridTiles' = IF shape = "noTiles" THEN EmptyMap
                        ELSE GridDeserialize(data)
        /\ wmBuildings' = CASE shape = "noTiles" -> wmBuildings
                            [] shape = "noBuildings" -> EmptyMap
                            [] OTHER -> ById(data.buildings)
        /\ wmRoads' = CASE shape \in {"noTiles", "noBuildings"} -> wmRoads
                        [] shape = "noRoads" -> EmptyMap
                        [] OTHER -> ById(data.roads)
  /\ lastOp' = Op("load", IF shape = "ok" THEN "loaded" ELSE "threw")
  /\ UNCHANGED <<impl, tiles, buildings, roads, balance, timers, nextId>>
  /\ UNCHANGED schedVars
  /\ UNCHANGED simVars
  /\ UNCHANGED pathVars

(***************************************************************************)
(* game/simulation/SimulationManager.ts and game/core/GameEngine.ts: the   *)
(* scheduler                                                               *)
(***************************************************************************)
SystemNames == {"time", "economy", "zoning", "population", "traffic"}

\* the priority field of each system class
priority ==
  [time |-> 0, economy |-> 10, zoning |-> 20, population |-> 30,
   traffic |-> 50]

\* useGame's initialize: the order in which the systems are registered
RegistrationOrder == <<"time", "economy", "zoning", "population", "traffic">>

\* q with e put before the first element that compares greater: one step of
\* a stable sort by (a, b) => a.priority - b.priority
InsertByPriority(q, e) ==
  LET before == SelectSeq(q, LAMBDA a : priority[a] <= priority[e])
      after == SelectSeq(q, LAMBDA a : priority[a] > priority[e])
  IN before \o <<e>> \o after

RECURSIVE SortByPriority(_)
SortByPriority(q) ==
  IF q = << >> THEN << >>
  ELSE InsertByPriority(SortByPriority(SubSeq(q, 1, Len(q) - 1)), q[Len(q)])

\* Array.from(systems.values()).filter(s => s.enabled).sort(...)
sorted(sys, en) == SortByPriority(SelectSeq(sys, LAMBDA n : en[n]))

\* SimulationManager.update's loop: a throwing update ends it
RECURSIVE RunUnguarded(_, _, _)
RunUnguarded(q, faults, i) ==
  IF i > Len(q) THEN [invoked |-> << >>, outcome |-> "returned"]
  ELSE IF q[i] \in faults
       THEN [invoked |-> <<q[i]>>, outcome |-> "threw"]
       ELSE LET rest == RunUnguarded(q, faults, i + 1)
            IN [invoked |-> <<q[i]>> \o rest.invoked, outcome |-> rest.outcome]

\* GameEngine.update's loop: try { system.update } catch { console.error }
RECURSIVE RunGuarded(_, _, _)
RunGuarded(q, faults, i) ==
  IF i > Len(q) THEN [invoked |-> << >>, outcome |-> "returned"]
  ELSE LET rest == RunGuarded(q, faults, i + 1)
       IN [invoked |-> <<q[i]>> \o rest.invoked, outcome |-> rest.outcome]

NoTick == [outcome |-> "none"]

\* SimulationManager.register (set: a present name keeps its place and gets
\* the new object) / GameEngine.registerSystem (a present name is refused)
Register(name) ==
  /\ IF name \in Range(systems)
     THEN /\ systems' = systems
          /\ enabled' = IF scheduler = "SimulationManager"
                        THEN [enabled EXCEPT ![name] = TRUE]
                        ELSE enabled
     ELSE /\ systems' = Append(systems, name)
          /\ enabled' = MapSet(enabled, name, TRUE)
  /\ invoked' = << >>
  /\ tickFaults' = {}
  /\ tickResult' = NoTick
  /\ UNCHANGED resets
  /\ UNCHANGED <<impl, scheduler>>
  /\ UNCHANGED worldVars
  /\ UNCHANGED simVars
  /\ UNCHANGED pathVars

\* SimulationManager.unregister / GameEngine.unregisterSystem
Unregister(name) ==
  /\ systems' = SelectSeq(systems, LAMBDA n : n # name)
  /\ enabled' = MapDelete(enabled, name)
  /\ invoked' = << >>
  /\ tickFaults' = {}
  /\ tickResult' = NoTick
  /\ UNCHANGED resets
  /\ UNCHANGED <<impl, scheduler>>
  /\ UNCHANGED worldVars
  /\ UNCHANGED simVars
  /\ UNCHANGED pathVars

\* the host sets a registered system's enabled flag
SetEnabled(name, flag) ==
  /\ name \in Range(systems)
  /\ enabled' = [enabled EXCEPT ![name] = flag]
  /\ invoked' = << >>
  /\ tickFaults' = {}
  /\ tickResult' = NoTick
  /\ UNCHANGED resets
  /\ UNCHANGED <<impl, scheduler, systems>>
  /\ UNCHANGED worldVars
  /\ UNCHANGED simVars
  /\ UNCHANGED pathVars

\* one update(delta, gameTime) call in which the updates of the systems in
\* faults raise
Update(faults) ==
  /\ LET run == IF scheduler = "SimulationManager"
                THEN RunUnguarded(sorted(systems, enabled), faults, 1)
                ELSE RunGuarded(sorted(systems, enabled), faults, 1)
     IN /\ invoked' = run.invoked
        /\ tickResult' = [outcome |-> run.outcome]
  /\ UNCHANGED resets
  /\ tickFaults' = faults
  /\ UNCHANGED <<impl, scheduler, systems, enabled>>
  /\ UNCHANGED worldVars
  /\ UNCHANGED simVars
  /\ UNCHANGED pathVars

(***************************************************************************)
(* The simulation systems (EconomySystem, ZoningSystem, PopulationSystem)  *)
(* and the clock.  Each system's update is an operator on the record of    *)
(* the store fields it reads and writes, so that a tick can apply them one *)
(* after the other as SimulationManager.update does.                       *)
(***************************************************************************)
initialGameTime == [day |-> 1, hour |-> 8, minute |-> 0, totalMinutes |-> 0]

\* gameStore.advanceTime: day, hour and minute are recomputed from
\* totalMinutes
advanceTime(time, minutes) ==
  LET totalMinutes == time.totalMinutes + minutes
      totalHours == totalMinutes \div 60
  IN [day |-> (totalHours \div 24) + 1, hour |-> totalHours % 24,
      minute |-> totalMinutes % 60, totalMinutes |-> totalMinutes]

AdvanceTime(minutes) ==
  /\ gameTime.totalMinutes + minutes <= MaxMinutes
  /\ gameTime' = advanceTime(gameTime, minutes)
  /\ UNCHANGED <<balance24, economy, population, zoneDemand, initialEconomy,
                 lastUpdate, ran, clockLog>>
  /\ UNCHANGED <<impl, worldVars, schedVars>>
  /\ UNCHANGED pathVars

TAX_INCOME_PER_RESIDENT == 10
TAX_INCOME_PER_WORKER == 15
TAX_INCOME_PER_INDUSTRY == 20
DEFAULT_TAX_RATE == 9

\* the sum of a function's values
RECURSIVE Sum(_)
Sum(f) ==
  IF DOMAIN f = {} THEN 0
  ELSE LET x == CHOOSE y \in DOMAIN f : TRUE
       IN f[x] + Sum([y \in DOMAIN f \ {x} |-> f[y]])

RECURSIVE QSum(_)
QSum(f) ==
  IF DOMAIN f = {} THEN QInt(0)
  ELSE LET x == CHOOSE y \in DOMAIN f : TRUE
       IN QAdd(f[x], QSum([y \in DOMAIN f \ {x} |-> f[y]]))

\* building.occupancy / 100
occupancyRate(b) == QMul(b.occupancy, Q(1, 100))

\* the buildings of bs whose definition has the zone
InZone(bs, zone) ==
  {i \in DOMAIN bs : getBuildingDefinition(bs[i].definitionId).zone = zone}

\* lib/constants
MIN_TAX_RATE == 0
MAX_TAX_RATE == 20

\* cityStore.initialEconomy.taxRates
initialTaxRates ==
  [residential |-> DEFAULT_TAX_RATE, commercial |-> DEFAULT_TAX_RATE,
   industrial |-> DEFAULT_TAX_RATE]

\* calculateIncome: the tax of one zone before Math.floor
zoneIncome(bs, zone, perHead, taxRates) ==
  QSum([i \in InZone(bs, zone) |->
          LET definition == getBuildingDefinition(bs[i].definitionId)
              heads == IF zone = "residential" THEN definition.capacity
                       ELSE definition.jobs
          IN QMul(QMul(QMul(QInt(heads), occupancyRate(bs[i])),
                       QInt(perHead)),
                  Q(taxRates[zone], 100))])

\* the sum Math.floor is applied to
incomeBeforeFloor(bs, taxRates) ==
  QAdd(QAdd(zoneIncome(bs, "residential", TAX_INCOME_PER_RESIDENT, taxRates),
            zoneIncome(bs, "commercial", TAX_INCOME_PER_WORKER, taxRates)),
       zoneIncome(bs, "industrial", TAX_INCOME_PER_INDUSTRY, taxRates))

calculateIncome(bs, taxRates) == QFloor(incomeBeforeFloor(bs, taxRates))

\* calculateExpenses: the maintenance of every building, and once more the
\* maintenance of every building with a service type the table lists
ServiceKeys == {"police", "fire", "health", "education", "power", "water",
                "waste"}

calculateExpenses(bs) ==
  LET maintenanceExpenses ==
        Sum([i \in DOMAIN bs |->
               getBuildingDefinition(bs[i].definitionId).maintenanceCost])
      serviceTotal ==
        Sum([i \in {j \in DOMAIN bs :
                      getBuildingDefinition(bs[j].definitionId).serviceType
                        \in ServiceKeys} |->
               getBuildingDefinition(bs[i].definitionId).maintenanceCost])
  IN maintenanceExpenses + serviceTotal

\* no economy:updated event was published
NoPayload == << >>

\* EconomySystem.update: the hourly step is skipped when the clock's hour is
\* the hour of the last step
EconomyUpdate(st, time) ==
  IF time.hour = st.lastUpdate.economy THEN st
  ELSE LET income == calculateIncome(st.buildings, st.economy.taxRates)
           expenses == calculateExpenses(st.buildings)
           \* updateBalance(income / 24 - expenses / 24), in 24ths
           total24 == st.balance * 24 + st.balance24 + income - expenses
       IN [st EXCEPT !.lastUpdate = [@ EXCEPT !.economy = time.hour],
                     !.economy = [income |-> income, expenses |-> expenses,
                                  taxRates |-> st.economy.taxRates],
                     \* calculateIncome and calculateExpenses write the
                     \* object the store holds, which is the module-level
                     \* one while it is shared; cityStore.updateBalance
                     \* then puts a copy in the store
                     !.initialEconomy =
                        IF st.initialEconomy.shared
                        THEN [income |-> income, expenses |-> expenses,
                              shared |-> FALSE]
                        ELSE st.initialEconomy,
                     !.balance = total24 \div 24,
                     !.balance24 = total24 % 24,
                     \* GameEvents.economyUpdated: the fields of the object
                     \* read before cityStore.updateBalance replaced it
                     !.economyUpdated =
                        [balance |-> st.balance, balance24 |-> st.balance24,
                         income |-> income, expenses |-> expenses,
                         \* what a listener reads from the store
                         store |-> [balance |-> total24 \div 24,
                                    balance24 |-> total24 % 24]],
                     !.ran = @ \cup {"economy"}]

DEMAND_MIN == 0 - 100
DEMAND_MAX == 100
\* 1 - DEMAND_DECAY_RATE, DEMAND_DECAY_RATE = 0.1
DemandKept == Q(9, 10)
DevelopThreshold == 30
maxDevelopments == 2

\* calculateDemand with the decay applied before the nudge
calculateDemandDecayFirst(bs, pop, demand) ==
  LET kept == [z \in DOMAIN demand |-> QMul(demand[z], DemandKept)]
      residentialCapacity ==
        Sum([i \in InZone(bs, "residential") |->
               getBuildingDefinition(bs[i].definitionId).capacity])
      commercialJobs ==
        Sum([i \in InZone(bs, "commercial") |->
               getBuildingDefinition(bs[i].definitionId).jobs])
      industrialJobs ==
        Sum([i \in InZone(bs, "industrial") |->
               getBuildingDefinition(bs[i].definitionId).jobs])
      jobs == commercialJobs + industrialJobs
      \* population.total || 1 and population.employmentRate || 0.5
      totalPopulation == IF pop.total = 0 THEN 1 ELSE pop.total
      employmentRate == IF pop.employmentRate = QInt(0) THEN Q(1, 2)
                        ELSE pop.employmentRate
      newResidentialDemand ==
        IF 10 * jobs > 8 * residentialCapacity
        THEN QAdd(kept.residential, QInt(5))
        ELSE IF 10 * residentialCapacity > 15 * jobs
             THEN QSub(kept.residential, QInt(3))
             ELSE kept.residential
      newCommercialDemand ==
        IF totalPopulation > commercialJobs * 2
        THEN QAdd(kept.commercial, QInt(4))
        ELSE IF 10 * commercialJobs > 8 * totalPopulation
             THEN QSub(kept.commercial, QInt(2))
             ELSE kept.commercial
      newIndustrialDemand ==
        IF QLess(employmentRate, Q(7, 10))
        THEN QAdd(kept.industrial, QInt(5))
        ELSE IF QLess(Q(95, 100), employmentRate)
             THEN QSub(kept.industrial, QInt(2))
             ELSE kept.industrial
  IN [residential |-> clamp(newResidentialDemand,
                            QInt(DEMAND_MIN), QInt(DEMAND_MAX)),
      commercial |-> clamp(newCommercialDemand,
                           QInt(DEMAND_MIN), QInt(DEMAND_MAX)),
      industrial |-> clamp(newIndustrialDemand,
                           QInt(DEMAND_MIN), QInt(DEMAND_MAX))]

\* ZoningSystem.calculateDemand: each demand nudged by the supply ratios,
\* then decayed and clamped
calculateDemand(bs, pop, demand) ==
  LET residentialCapacity ==
        Sum([i \in InZone(bs, "residential") |->
               getBuildingDefinition(bs[i].definitionId).capacity])
      commercialJobs ==
        Sum([i \in InZone(bs, "commercial") |->
               getBuildingDefinition(bs[i].definitionId).jobs])
      industrialJobs ==
        Sum([i \in InZone(bs, "industrial") |->
               getBuildingDefinition(bs[i].definitionId).jobs])
      jobs == commercialJobs + industrialJobs
      \* population.total || 1 and population.employmentRate || 0.5
      totalPopulation == IF pop.total = 0 THEN 1 ELSE pop.total
      employmentRate == IF pop.employmentRate = QInt(0) THEN Q(1, 2)
                        ELSE pop.employmentRate
      newResidentialDemand ==
        IF 10 * jobs > 8 * residentialCapacity
        THEN QAdd(demand.residential, QInt(5))
        ELSE IF 10 * residentialCapacity > 15 * jobs
             THEN QSub(demand.residential, QInt(3))
             ELSE demand.residential
      newCommercialDemand ==
        IF totalPopulation > commercialJobs * 2
        THEN QAdd(demand.commercial, QInt(4))
        ELSE IF 10 * commercialJobs > 8 * totalPopulation
             THEN QSub(demand.commercial, QInt(2))
             ELSE demand.commercial
      newIndustrialDemand ==
        IF QLess(employmentRate, Q(7, 10))
        THEN QAdd(demand.industrial, QInt(5))
        ELSE IF QLess(Q(95, 100), employmentRate)
             THEN QSub(demand.industrial, QInt(2))
             ELSE demand.industrial
  IN [residential |-> clamp(QMul(newResidentialDemand, DemandKept),
                            QInt(DEMAND_MIN), QInt(DEMAND_MAX)),
      commercial |-> clamp(QMul(newCommercialDemand, DemandKept),
                           QInt(DEMAND_MIN), QInt(DEMAND_MAX)),
      industrial |-> clamp(QMul(newIndustrialDemand, DemandKept),
                           QInt(DEMAND_MIN), QInt(DEMAND_MAX))]

\* the keys of S in the order tiles.forEach meets them: initializeGrid
\* inserts x by x, and for each x z by z
RECURSIVE TileOrder(_)
TileOrder(S) ==
  IF S = {} THEN << >>
  ELSE LET m == CHOOSE a \in S :
                  \A b \in S : a[1] < b[1] \/ (a[1] = b[1] /\ a[2] <= b[2])
       IN <<m>> \o TileOrder(S \ {m})

\* processDevelopment's developableTiles: zoned, no building, no road, and
\* the zone's demand above the threshold
developableTiles(ts, demand) ==
  TileOrder({k \in DOMAIN ts : /\ ts[k].zone # NoZone
                               /\ ts[k].buildingId = NoId
                               /\ ts[k].roadId = NoId
                               /\ QLess(QInt(DevelopThreshold),
                                        demand[ts[k].zone])})

\* the ids of buildingCatalog in array order
CatalogOrder ==
  <<"power_plant_coal", "water_tower", "building_small_a",
    "commercial_skyscraper">>

\* processDevelopment's suitableBuildings: of the zone, 1x1, and costing at
\* most a tenth of the balance
suitableBuildings(zone, bal) ==
  SelectSeq(CatalogOrder,
            LAMBDA d : /\ getBuildingDefinition(d).zone = zone
                       /\ getBuildingDefinition(d).width = 1
                       /\ getBuildingDefinition(d).depth = 1
                       /\ 10 * getBuildingDefinition(d).cost <= bal)

\* the values Math.random() is let to return
RandomDraws == {Q(0, 1), Q(1, 2)}

\* cityStore.placeBuilding on the record st; placed is the new building's
\* id, or NoId when the call returns null
placeBuilding(st, definitionId, position, rotation) ==
  LET definition == getBuildingDefinition(definitionId)
      free == \A p \in Footprint(position, definition.width,
                                  definition.depth) :
                /\ gridPositionToKey(p) \in DOMAIN st.tiles
                /\ st.tiles[gridPositionToKey(p)].buildingId = NoId
                /\ st.tiles[gridPositionToKey(p)].roadId = NoId
  IN IF \/ ~HasDefinition(definitionId)
        \/ st.balance < definition.cost
        \/ ~free
     THEN [st EXCEPT !.placed = NoId]
     ELSE LET building == newBuilding(st.nextId, definitionId, position,
                            finalRotation(position, definition, rotation))
          IN [st EXCEPT
                !.buildings = MapSet(@, building.id, building),
                !.tiles = ClaimTiles(@, building.id, position, definition),
                !.balance = @ - definition.cost,
                !.initialEconomy = replaced(@),
                !.timers = @ + 1,
                !.nextId = @ + 1,
                !.placed = building.id]

\* processDevelopment's loop from the i-th developable tile on; bal is the
\* balance read before the loop, picks the values Math.random returns for
\* the building and for the rotation of each development
RECURSIVE Develop(_, _, _, _, _, _)
Develop(st, order, i, developments, bal, picks) ==
  IF i > Len(order) \/ developments >= maxDevelopments THEN st
  ELSE LET tile == st.tiles[order[i]]
           pick == picks[developments + 1]
           suitable == suitableBuildings(tile.zone, bal)
       IN IF suitable = << >>
          THEN Develop(st, order, i + 1, developments, bal, picks)
          ELSE LET after ==
                     placeBuilding(
                       st,
                       suitable[QFloor(QMul(pick.building,
                                            QInt(Len(suitable)))) + 1],
                       tile.position,
                       QFloor(QMul(pick.rotation, QInt(4))) * 90)
               IN IF after.placed = NoId
                  THEN Develop(after, order, i + 1, developments, bal, picks)
                  ELSE Develop(
                         [after EXCEPT !.buildings[after.placed].occupancy =
                            QMin(QAdd(QInt(50), st.zoneDemand[tile.zone]),
                                 QInt(100)),
                                       !.spawned = Append(@, after.placed)],
                         order, i + 1, developments + 1, bal, picks)

processDevelopment(st, picks) ==
  Develop(st, developableTiles(st.tiles, st.zoneDemand), 1, 0, st.balance,
          picks)

\* ZoningSystem.update throttled by the clock's hour, as the economy system
\* is, instead of by its day
ZoningUpdateHourly(st, time, picks) ==
  IF time.hour = st.lastUpdate.zoning THEN st
  ELSE processDevelopment(
         [st EXCEPT !.lastUpdate = [@ EXCEPT !.zoning = time.hour],
                    !.zoneDemand = calculateDemand(st.buildings,
                                                   st.population, @),
                    !.ran = @ \cup {"zoning"}],
         picks)

\* ZoningSystem.update: the daily step is skipped when the clock's day is
\* the day of the last step
ZoningUpdate(st, time, picks) ==
  IF time.day = st.lastUpdate.zoning THEN st
  ELSE processDevelopment(
         [st EXCEPT !.lastUpdate = [@ EXCEPT !.zoning = time.day],
                    !.zoneDemand = calculateDemand(st.buildings,
                                                   st.population, @),
                    !.ran = @ \cup {"zoning"}],
         picks)

BASE_HAPPINESS == 50
MAX_HAPPINESS == 100
MIN_HAPPINESS == 0
\* POPULATION_GROWTH_RATE = 0.01 and MIGRATION_FACTOR = 0.5
POPULATION_GROWTH_RATE == Q(1, 100)
MIGRATION_FACTOR == Q(1, 2)

initialPopulation ==
  [total |-> 0, residential |-> 0, workers |-> 0, employed |-> 0,
   unemployed |-> 0, employmentRate |-> QInt(0), happiness |-> QInt(50),
   growth |-> 0, births |-> 0, deaths |-> 0, migration |-> 0,
   demographics |-> [children |-> 0, adults |-> 0, elderly |-> 0]]

initialZoneDemand ==
  [residential |-> QInt(50), commercial |-> QInt(30),
   industrial |-> QInt(20)]

\* updatePopulationState(partial): the fields of partial replace those of
\* the population
updatePopulationState(pop, partial) ==
  [f \in DOMAIN pop |-> IF f \in DOMAIN partial THEN partial[f] ELSE pop[f]]

\* PopulationSystem.updateOccupancy, for one building
newOccupancy(b, pop, demand) ==
  LET definition == getBuildingDefinition(b.definitionId)
      demandFactor == QMul(QAdd(demand[definition.zone], QInt(100)),
                           Q(1, 200))
      happinessFactor == QMul(pop.happiness, Q(1, 100))
      byDemand == QMul(QMul(demandFactor, happinessFactor), QInt(100))
      byPower == IF b.isPowered THEN byDemand ELSE QMul(byDemand, Q(1, 2))
      targetOccupancy == IF b.hasWater THEN byPower
                         ELSE QMul(byPower, Q(7, 10))
      moved == clamp(lerp(b.occupancy, targetOccupancy, Q(1, 5)),
                     QInt(0), QInt(100))
  IN IF definition.zone = "residential" /\ QLess(moved, QInt(20))
     THEN QMax(moved, QInt(20))
     ELSE moved

updateOccupancy(st) ==
  LET bs == st.buildings
  IN [st EXCEPT !.buildings =
        [i \in DOMAIN bs |->
           IF getBuildingDefinition(bs[i].definitionId).zone = NoZone
           THEN bs[i]
           ELSE [bs[i] EXCEPT !.occupancy =
                   newOccupancy(bs[i], st.population, st.zoneDemand)]]]

\* PopulationSystem.calculateHappiness: the catalogue has no police, fire,
\* health, education or park building, and no code writes a tile's
\* pollution, so those terms are 0
calculateHappiness(st) ==
  LET employment == QMul(QSub(st.population.employmentRate, Q(1, 2)),
                         QInt(40))
      avgTax == Q(st.economy.taxRates.residential
                    + st.economy.taxRates.commercial
                    + st.economy.taxRates.industrial, 3)
      tax == QMul(QSub(avgTax, QInt(10)), Q(3, 2))
      happiness == QSub(QAdd(QInt(BASE_HAPPINESS), employment), tax)
  IN [st EXCEPT !.population =
        updatePopulationState(@,
          [happiness |-> clamp(happiness, QInt(MIN_HAPPINESS),
                               QInt(MAX_HAPPINESS))])]

\* PopulationSystem.processGrowth without its migration term: births and
\* deaths only
processGrowthWithoutMigration(st) ==
  LET pop == st.population
      happinessFactor == QMul(pop.happiness, Q(1, 100))
      demandFactor == QMul(QMax(st.zoneDemand.residential, QInt(0)),
                           Q(1, 100))
      growthRate == QMul(QMul(POPULATION_GROWTH_RATE, happinessFactor),
                         demandFactor)
      births == QFloor(QMul(QMul(QInt(pop.total), growthRate), Q(3, 10)))
      deaths == QFloor(QMul(QInt(pop.total), Q(1, 1000)))
      newTotal == Max(0, pop.total + births - deaths)
  IN [st EXCEPT !.population =
        updatePopulationState(@,
          [total |-> newTotal, growth |-> births - deaths, births |-> births,
           deaths |-> deaths, migration |-> 0])]

\* PopulationSystem.processGrowth
processGrowth(st) ==
  LET bs == st.buildings
      pop == st.population
      res == InZone(bs, "residential")
      maxCapacity ==
        QSum([i \in res |->
                QMul(QInt(getBuildingDefinition(bs[i].definitionId).capacity),
                     QMax(occupancyRate(bs[i]), Q(1, 10)))])
      totalCapacity ==
        Sum([i \in res |->
               getBuildingDefinition(bs[i].definitionId).capacity])
      maxPopulation == QFloor(maxCapacity)
      happinessFactor == QMul(pop.happiness, Q(1, 100))
      demandFactor == QMul(QMax(st.zoneDemand.residential, QInt(0)),
                           Q(1, 100))
      growthRate == QMul(QMul(POPULATION_GROWTH_RATE, happinessFactor),
                         demandFactor)
      births == QFloor(QMul(QMul(QInt(pop.total), growthRate), Q(3, 10)))
      deaths == QFloor(QMul(QInt(pop.total), Q(1, 1000)))
      baseDemand == QMax(QMul(st.zoneDemand.residential, Q(1, 100)),
                         Q(3, 10))
      base == QFloor(QMul(QMul(baseDemand, MIGRATION_FACTOR), QInt(20)))
      startPopulation == Max(1, QFloor(QMul(QInt(totalCapacity), Q(8, 100))))
      targetCapacity == QMax(QInt(maxPopulation),
                             QMul(QInt(totalCapacity), Q(25, 100)))
      availableCapacity == QSub(targetCapacity, QInt(pop.total))
      migration ==
        IF ~(totalCapacity > 0 \/ QLess(QInt(0), st.zoneDemand.residential))
        THEN 0
        ELSE IF totalCapacity > 0
             THEN IF pop.total = 0 THEN Max(base, startPopulation)
                  ELSE IF /\ QLess(QInt(pop.total),
                                   QMax(QInt(maxPopulation),
                                        QMul(QInt(totalCapacity),
                                             Q(15, 100))))
                          /\ QLess(QInt(0), availableCapacity)
                       THEN base + Max(1, QFloor(QMul(availableCapacity,
                                                      Q(15, 100))))
                       ELSE base
             ELSE IF /\ QLess(QInt(20), st.zoneDemand.residential)
                     /\ pop.total = 0
                  THEN Max(base, 5)
                  ELSE base
      growth == births - deaths + migration
      uncapped == Max(0, pop.total + growth)
      newTotal == IF maxPopulation > 0 /\ uncapped > maxPopulation
                  THEN maxPopulation ELSE uncapped
  IN [st EXCEPT !.population =
        updatePopulationState(@,
          [total |-> newTotal, growth |-> growth, births |-> births,
           deaths |-> deaths, migration |-> migration,
           demographics |->
             [children |-> QFloor(QMul(QInt(newTotal), Q(20, 100))),
              adults |-> QFloor(QMul(QInt(newTotal), Q(65, 100))),
              elderly |-> QFloor(QMul(QInt(newTotal), Q(15, 100)))]])]

\* calculateEmployment with the employment rate taken over the whole
\* population instead of the workers
calculateEmploymentOfTotal(st) ==
  LET bs == st.buildings
      pop == st.population
      totalCapacity ==
        Sum([i \in InZone(bs, "residential") |->
               getBuildingDefinition(bs[i].definitionId).capacity])
      filledJobs ==
        QSum([i \in {j \in DOMAIN bs \ InZone(bs, "residential") :
                       getBuildingDefinition(bs[j].definitionId).jobs > 0} |->
                QMul(QInt(getBuildingDefinition(bs[i].definitionId).jobs),
                     occupancyRate(bs[i]))])
      workers == QFloor(QMul(QInt(pop.total), Q(6, 10)))
      employed == Min(workers, QFloor(filledJobs))
  IN [st EXCEPT !.population =
        updatePopulationState(@,
          [residential |-> totalCapacity, workers |-> workers,
           employed |-> employed, unemployed |-> workers - employed,
           employmentRate |-> IF pop.total > 0 THEN Q(employed, pop.total)
                              ELSE QInt(0)])]

\* PopulationSystem.calculateEmployment
calculateEmployment(st) ==
  LET bs == st.buildings
      pop == st.population
      totalCapacity ==
        Sum([i \in InZone(bs, "residential") |->
               getBuildingDefinition(bs[i].definitionId).capacity])
      filledJobs ==
        QSum([i \in {j \in DOMAIN bs \ InZone(bs, "residential") :
                       getBuildingDefinition(bs[j].definitionId).jobs > 0} |->
                QMul(QInt(getBuildingDefinition(bs[i].definitionId).jobs),
                     occupancyRate(bs[i]))])
      workers == QFloor(QMul(QInt(pop.total), Q(6, 10)))
      employed == Min(workers, QFloor(filledJobs))
  IN [st EXCEPT !.population =
        updatePopulationState(@,
          [residential |-> totalCapacity, workers |-> workers,
           employed |-> employed, unemployed |-> workers - employed,
           employmentRate |-> IF workers > 0 THEN Q(employed, workers)
                              ELSE QInt(0)])]

\* PopulationSystem.update with the stages in the order of the first
\* definition of the class: employment before growth
PopulationUpdateEmploymentFirst(st, time) ==
  IF time.day = st.lastUpdate.population THEN st
  ELSE processGrowth(calculateHappiness(calculateEmployment(updateOccupancy(
         [st EXCEPT !.lastUpdate = [@ EXCEPT !.population = time.day],
                    !.ran = @ \cup {"population"}]))))

\* PopulationSystem.update: the daily step is skipped when the clock's day
\* is the day of the last step
PopulationUpdate(st, time) ==
  IF time.day = st.lastUpdate.population THEN st
  ELSE calculateEmployment(processGrowth(calculateHappiness(updateOccupancy(
         [st EXCEPT !.lastUpdate = [@ EXCEPT !.population = time.day],
                    !.ran = @ \cup {"population"}]))))

\* the update of one registered system; the time system's update is empty,
\* and the traffic system's update writes the trafficLoad of roads only
SystemUpdate(name, st, time, picks) ==
  CASE name = "economy" -> EconomyUpdate(st, time)
    [] name = "zoning" -> ZoningUpdate(st, time, picks)
    [] name = "population" -> PopulationUpdate(st, time)
    [] OTHER -> st

\* SimulationManager.update's loop over the enabled systems by priority
RECURSIVE RunSystems(_, _, _, _, _)
RunSystems(st, order, i, time, picks) ==
  IF i > Len(order) THEN st
  ELSE RunSystems(SystemUpdate(order[i], st, time, picks), order, i + 1,
                  time, picks)

NoClock == << >>
ClockOf(time) == <<time.day, time.hour, time.minute>>
\* a is not later than b
ClockLeq(a, b) ==
  \/ a[1] < b[1]
  \/ a[1] = b[1] /\ a[2] < b[2]
  \/ a[1] = b[1] /\ a[2] = b[2] /\ a[3] <= b[3]

\* the draws of a tick: one value for the two Math.random() calls of each
\* development, and the first value for the developments that cannot happen
\* because fewer tiles are zoned and empty
Picks ==
  LET open == Cardinality(validTiles(tiles))
  IN {picks \in [1..maxDevelopments ->
                   {[building |-> r, rotation |-> r] : r \in RandomDraws}] :
        \A k \in 1..maxDevelopments :
          k > open => picks[k].building = Q(0, 1)}

\* one frame of GameLoop: simManager.update(delta, gameTime)
Tick(picks) ==
  /\ impl = "store"
  /\ scheduler = "SimulationManager"
  /\ \E st \in {RunSystems(
                 [tiles |-> tiles, buildings |-> buildings,
                  balance |-> balance, balance24 |-> balance24,
                  economy |-> economy, population |-> population,
                  zoneDemand |-> zoneDemand,
                  initialEconomy |-> initialEconomy, nextId |-> nextId,
                  timers |-> timers, lastUpdate |-> lastUpdate, ran |-> {},
                  placed |-> NoId, spawned |-> << >>,
                  economyUpdated |-> NoPayload],
                 sorted(systems, enabled), 1, gameTime, picks)} :
        /\ st.nextId - 1 <= MaxIds
        /\ st.timers <= MaxPending
        /\ tiles' = st.tiles
        /\ buildings' = st.buildings
        /\ balance' = st.balance
        /\ balance24' = st.balance24
        /\ economy' = st.economy
        /\ population' = st.population
        /\ zoneDemand' = st.zoneDemand
        /\ initialEconomy' = st.initialEconomy
        /\ nextId' = st.nextId
        /\ timers' = st.timers
        /\ lastUpdate' = st.lastUpdate
        /\ ran' = st.ran
        /\ lastOp' = Op("update", IF st.spawned = << >> THEN "ticked"
                                   ELSE "developed")
  /\ clockLog' =
       [last |-> ClockOf(gameTime),
        monotone |-> /\ clockLog.monotone
                     /\ \/ clockLog.last = NoClock
                        \/ ClockLeq(clockLog.last, ClockOf(gameTime))]
  /\ UNCHANGED <<impl, roads, gridTiles, wmBuildings, wmRoads, gameTime>>
  /\ UNCHANGED schedVars
  /\ UNCHANGED pathVars

(***************************************************************************)
(* game/simulation/TrafficSystem: findPath                                 *)
(***************************************************************************)
\* the grid of the road layouts findPath is asked about
PathW == 5
PathH == 2

PathCells == {<<x, z>> : x \in 0..(PathW - 1), z \in 0..(PathH - 1)}

\* lib/constants: GRID_SIZE, the side of the city grid
GRID_SIZE == 64

\* utils.isValidGridPosition, on the grid of GRID_SIZE x GRID_SIZE tiles
OnCityGrid(position) ==
  /\ position.x >= 0
  /\ position.x < GRID_SIZE
  /\ position.z >= 0
  /\ position.z < GRID_SIZE

\* "Prevent infinite loop": closedSet.size > 1000
MaxExpansions == 1000

NoKey == << >>

manhattanDistance(a, b) == Abs(a.x - b.x) + Abs(a.z - b.z)

\* getAdjacentTiles with the four diagonal cells added to its directions
getAdjacentTilesWithDiagonals(position) ==
  SelectSeq(<<Pos(position.x, position.z - 1), Pos(position.x, position.z + 1),
              Pos(position.x - 1, position.z), Pos(position.x + 1, position.z),
              Pos(position.x - 1, position.z - 1),
              Pos(position.x + 1, position.z - 1),
              Pos(position.x - 1, position.z + 1),
              Pos(position.x + 1, position.z + 1)>>,
            LAMBDA p : OnCityGrid(p))

\* getAdjacentTiles: north, south, west, east, those on the city grid
getAdjacentTiles(position) ==
  SelectSeq(<<Pos(position.x, position.z - 1), Pos(position.x, position.z + 1),
              Pos(position.x - 1, position.z), Pos(position.x + 1, position.z)>>,
            LAMBDA p : OnCityGrid(p))

\* findNearestRoad's loop over the road positions lo..hi: the first road
\* at the least distance (a later road replaces it only when strictly
\* nearer); the range is halved so that long roads Maps can be walked
RECURSIVE NearestFrom(_, _, _, _)
NearestFrom(pos, roadPositions, lo, hi) ==
  IF lo = hi THEN roadPositions[lo]
  ELSE LET mid == (lo + hi) \div 2
           first == NearestFrom(pos, roadPositions, lo, mid)
           second == NearestFrom(pos, roadPositions, mid + 1, hi)
       IN IF manhattanDistance(pos, keyToGridPosition(second))
               < manhattanDistance(pos, keyToGridPosition(first))
          THEN second ELSE first

\* NoKey stands for null
findNearestRoad(pos, roadPositions) ==
  IF roadPositions = << >> THEN NoKey
  ELSE NearestFrom(pos, roadPositions, 1, Len(roadPositions))

NotFound == [path |-> << >>, cost |-> 0, found |-> FALSE]

\* openSet is the Map of open nodes as the sequence of its entries, in
\* insertion order; the index of key in it, or 0
IndexOf(openSet, key) ==
  IF \E i \in 1..Len(openSet) : openSet[i].key = key
  THEN CHOOSE i \in 1..Len(openSet) : openSet[i].key = key
  ELSE 0

\* "Find node with lowest f": the first entry no later entry is below
LowestF(openSet) ==
  CHOOSE i \in 1..Len(openSet) :
    /\ \A j \in 1..Len(openSet) : openSet[i].f <= openSet[j].f
    /\ \A j \in 1..(i - 1) : openSet[j].f > openSet[i].f

\* openSet.delete(key)
OpenDelete(openSet, i) ==
  SubSeq(openSet, 1, i - 1) \o SubSeq(openSet, i + 1, Len(openSet))

\* openSet.set(key, node): an existing key keeps its place in the Map
OpenSet(openSet, node) ==
  IF IndexOf(openSet, node.key) = 0 THEN Append(openSet, node)
  ELSE [openSet EXCEPT ![IndexOf(openSet, node.key)] = node]

\* "Check neighbors": the loop over the neighbours of current from the i-th
RECURSIVE CheckNeighbors(_, _, _, _, _, _, _)
CheckNeighbors(openSet, closedSet, current, neighbors, i, roads0, endRoad) ==
  IF i > Len(neighbors) THEN openSet
  ELSE LET neighbor == neighbors[i]
           neighborKey == gridPositionToKey(neighbor)
           tentativeG == current.g + 1
           existing == IndexOf(openSet, neighborKey)
           h == manhattanDistance(neighbor, keyToGridPosition(endRoad))
       IN IF neighborKey \notin roads0 \/ neighborKey \in closedSet
          THEN CheckNeighbors(openSet, closedSet, current, neighbors, i + 1,
                              roads0, endRoad)
          ELSE IF existing = 0 \/ tentativeG < openSet[existing].g
               THEN CheckNeighbors(
                      OpenSet(openSet,
                              [key |-> neighborKey, pos |-> neighbor,
                               g |-> tentativeG, h |-> h,
                               f |-> tentativeG + h, parent |-> current.key]),
                      closedSet, current, neighbors, i + 1, roads0, endRoad)
               ELSE CheckNeighbors(openSet, closedSet, current, neighbors,
                                   i + 1, roads0, endRoad)

\* "Reconstruct path": for each key on the way the loop unshifts
\* current.pos, and it follows the parent of the key's open node only
RECURSIVE ReconstructPath(_, _, _, _, _)
ReconstructPath(openSet, closedSet, current, pathKey, path) ==
  IF pathKey = NoKey THEN path
  ELSE LET i == IndexOf(openSet, pathKey)
           node == i # 0 \/ pathKey \in closedSet
       IN ReconstructPath(openSet, closedSet, current,
                          IF i # 0 THEN openSet[i].parent ELSE NoKey,
                          IF node THEN <<current.pos>> \o path ELSE path)

\* one pass of the A* loop, "while (openSet.size > 0)", on the search
\* a = [openSet, closedSet, result]; result holds what findPath returns
\* once a pass has returned or has left the loop
AStarStep(a, roads0, endRoad) ==
  IF a.result # << >> THEN a
  ELSE IF a.openSet = << >> THEN [a EXCEPT !.result = <<NotFound>>]
  ELSE LET c == LowestF(a.openSet)
           current == a.openSet[c]
       IN IF current.key = endRoad
          THEN [a EXCEPT !.result =
                  <<[path |-> ReconstructPath(a.openSet, a.closedSet, current,
                                              current.key, << >>),
                     cost |-> current.g, found |-> TRUE]>>]
          ELSE LET closed1 == a.closedSet \cup {current.key}
                   open1 == CheckNeighbors(OpenDelete(a.openSet, c), closed1,
                                           current,
                                           getAdjacentTiles(current.pos), 1,
                                           roads0, endRoad)
               IN [openSet |-> open1, closedSet |-> closed1,
                   result |-> IF Cardinality(closed1) > MaxExpansions
                              THEN <<NotFound>> ELSE << >>]

\* n passes of the loop, or fewer when a pass has returned
RECURSIVE AStarRun(_, _, _, _)
AStarRun(a, n, roads0, endRoad) ==
  IF n = 0 \/ a.result # << >> THEN a
  ELSE IF n = 1 THEN AStarStep(a, roads0, endRoad)
       ELSE AStarRun(AStarRun(a, n \div 2, roads0, endRoad), n - n \div 2,
                     roads0, endRoad)

\* the passes the model lets the loop take: each pass returns or closes one
\* more node, so the loop has ended by then unless the cap fails to stop it
MaxPasses == MaxExpansions + 2

\* a call that has not returned after MaxPasses passes
StillSearching == [path |-> << >>, cost |-> 0 - 1, found |-> FALSE]

\* the A* loop
AStar(openSet, closedSet, roads0, endRoad) ==
  LET a == AStarRun([openSet |-> openSet, closedSet |-> closedSet,
                     result |-> << >>], MaxPasses, roads0, endRoad)
  IN IF a.result = << >> THEN StillSearching ELSE a.result[1]

\* TrafficSystem.findPath(start, end) over the roads whose keys, in Map
\* order, are roadPositions
findPath(roadPositions, start, end) ==
  IF roadPositions = << >> THEN NotFound
  ELSE LET startRoad == findNearestRoad(start, roadPositions)
           endRoad == findNearestRoad(end, roadPositions)
           h == manhattanDistance(keyToGridPosition(startRoad),
                                  keyToGridPosition(endRoad))
       IN IF startRoad = NoKey \/ endRoad = NoKey THEN NotFound
          ELSE AStar(<<[key |-> startRoad,
                        pos |-> keyToGridPosition(startRoad),
                        g |-> 0, h |-> h, f |-> h, parent |-> NoKey]>>,
                     {}, Range(roadPositions), endRoad)

\* no call yet; after the call, the one result
NoResult == << >>

\* one call of findPath with the query's positions
FindPath ==
  /\ pathResult = NoResult
  /\ pathResult' = <<findPath(roadLayout, query.start, query.end)>>
  /\ UNCHANGED <<roadLayout, query, eventBus, gameLoop>>
  /\ UNCHANGED trafficVars
  /\ UNCHANGED <<impl, worldVars, schedVars, simVars>>

(***************************************************************************)
(* game/simulation/TrafficSystem: spawning, movement and congestion.  The  *)
(* system reads the buildings' definitions, positions and occupancy and    *)
(* the roads' positions (roadLayout).                                      *)
(***************************************************************************)
\* lib/constants
TILE_SIZE == 1
MAX_VEHICLES == 200
VEHICLE_SPEED == 2
VEHICLE_SPAWN_RATE == Q(1, 10)
CONGESTION_THRESHOLD == Q(7, 10)

\* the occupancy from which a building sends or receives vehicles
SpawnOccupancy == 20

\* the distance to a waypoint below which the vehicle has reached it
ReachDistance == Q(1, 10)

\* lib/utils.gridToWorld
gridToWorld(position) ==
  [x |-> QInt(position.x * TILE_SIZE - (GRID_SIZE * TILE_SIZE) \div 2),
   z |-> QInt(position.z * TILE_SIZE - (GRID_SIZE * TILE_SIZE) \div 2)]

\* lib/utils.randomElement with r the value Math.random() returns
randomElement(array, r) == array[QFloor(QMul(r, QInt(Len(array)))) + 1]

\* lib/utils.generateId returns a fresh uuid: the least number no vehicle
\* of the Map carries
generateId(vs) ==
  CHOOSE id \in 1..(Len(vs) + 1) :
    /\ \A i \in 1..Len(vs) : vs[i].id # id
    /\ \A j \in 1..(id - 1) : \E i \in 1..Len(vs) : vs[i].id = j

QSquare(a) == QMul(a, a)

\* A vehicle's position is a point of the straight leg it is on: the point
\* at the distance `travelled` from the point `from` towards the point `to`
\* (both with rational coordinates).  The legs of a vehicle start where
\* the code sets the position to exact values: at creation and when a
\* waypoint is reached.
AtPoint(point) == [from |-> point, to |-> point, travelled |-> QInt(0)]

\* dx * dx + dz * dz between two points
Distance2(a, b) ==
  QAdd(QSquare(QSub(b.x, a.x)), QSquare(QSub(b.z, a.z)))

\* q <= sign * sqrt(r2), for r2 >= 0 and sign in {-1, 1}
LeqRoot(q, sign, r2) ==
  IF sign >= 0
  THEN QLess(q, QInt(0)) \/ QLeq(QSquare(q), r2)
  ELSE QLeq(q, QInt(0)) /\ QLeq(r2, QSquare(q))

\* Math.floor(c + 32) for the coordinate c of the position, of which `a` is
\* the leg's first and `b` its last value
FloorOnLeg(a, b, position) ==
  LET d2 == Distance2(position.from, position.to)
      offset == QAdd(a, QInt(GRID_SIZE \div 2))
      \* the square of the coordinate's advance along the leg
      r2 == IF d2.n = 0 THEN QInt(0)
            ELSE QMul(QMul(QSquare(QSub(b, a)), QSquare(position.travelled)),
                      [n |-> d2.d, d |-> d2.n])
      sign == IF QLess(b, a) THEN 0 - 1 ELSE 1
      lo == Min(QFloor(offset), QFloor(QAdd(b, QInt(GRID_SIZE \div 2)))) - 1
      hi == Max(QFloor(offset), QFloor(QAdd(b, QInt(GRID_SIZE \div 2)))) + 1
  IN CHOOSE k \in lo..hi :
       /\ LeqRoot(QSub(QInt(k), offset), sign, r2)
       /\ ~LeqRoot(QSub(QInt(k + 1), offset), sign, r2)

\* updateCongestion's gridPos of a vehicle
VehicleCell(vehicle) ==
  <<FloorOnLeg(vehicle.position.from.x, vehicle.position.to.x,
               vehicle.position),
    FloorOnLeg(vehicle.position.from.z, vehicle.position.to.z,
               vehicle.position)>>

\* what the spawn step of a tick did: the number of createVehicle calls,
\* whether the call's path query found a path, and the vehicles before and
\* after the step
NoSpawn == [calls |-> 0, found |-> FALSE, before |-> << >>, after |-> << >>]

\* a createVehicle that goes on without a path
createVehicleUnchecked(tr, rp, start, end, draws) ==
  LET path == findPath(rp, start, end)
      vehicle == [id |-> generateId(tr.vehicles),
                  type |-> IF QLess(draws.type, Q(9, 10)) THEN "car"
                           ELSE "truck",
                  position |-> AtPoint(gridToWorld(start)),
                  path |-> path.path,
                  currentPathIndex |-> 0,
                  speed |-> QMul(QInt(VEHICLE_SPEED),
                                 QAdd(Q(8, 10),
                                      QMul(draws.speed, Q(4, 10)))),
                  state |-> "moving"]
  IN [tr EXCEPT !.vehicles = Append(@, vehicle),
                !.spawnLog = [@ EXCEPT !.calls = @ + 1,
                                       !.found = path.found]]

\* TrafficSystem.createVehicle over the roads rp
createVehicle(tr, rp, start, end, draws) ==
  LET path == findPath(rp, start, end)
  IN IF ~path.found \/ Len(path.path) < 2
     THEN [tr EXCEPT !.spawnLog = [@ EXCEPT !.calls = @ + 1,
                                            !.found = path.found]]
     ELSE LET vehicle ==
                [id |-> generateId(tr.vehicles),
                 type |-> IF QLess(draws.type, Q(9, 10)) THEN "car"
                          ELSE "truck",
                 position |-> AtPoint(gridToWorld(start)),
                 path |-> path.path,
                 currentPathIndex |-> 0,
                 speed |-> QMul(QInt(VEHICLE_SPEED),
                                QAdd(Q(8, 10), QMul(draws.speed, Q(4, 10)))),
                 state |-> "moving"]
          IN [tr EXCEPT !.vehicles = Append(@, vehicle),
                        !.spawnLog = [@ EXCEPT !.calls = @ + 1,
                                               !.found = path.found]]

\* the positions spawnVehicles collects: the buildings of the zone, in Map
\* order, whose occupancy is at least 20
RECURSIVE SpawnSites(_, _, _)
SpawnSites(bs, ids, zone) ==
  IF ids = << >> THEN << >>
  ELSE LET building == bs[Head(ids)]
           rest == SpawnSites(bs, Tail(ids), zone)
       IN IF /\ HasDefinition(building.definitionId)
             /\ ~QLess(building.occupancy, QInt(SpawnOccupancy))
             /\ getBuildingDefinition(building.definitionId).zone = zone
          THEN <<building.position>> \o rest
          ELSE rest

\* TrafficSystem.spawnVehicles
spawnVehicles(tr, bs, rp, delta, draws) ==
  LET logged == [tr EXCEPT !.spawnLog = [calls |-> 0, found |-> FALSE,
                                         before |-> tr.vehicles,
                                         after |-> tr.vehicles]]
      elapsed == QAdd(tr.lastSpawnTime, delta)
      residentialBuildings == SpawnSites(bs, SortedIds(DOMAIN bs),
                                         "residential")
      commercialBuildings == SpawnSites(bs, SortedIds(DOMAIN bs),
                                        "commercial")
      industrialBuildings == SpawnSites(bs, SortedIds(DOMAIN bs),
                                        "industrial")
      spawnChance == QMul(VEHICLE_SPAWN_RATE,
                          QInt(Len(residentialBuildings)))
      destinations == commercialBuildings \o industrialBuildings
      due == [logged EXCEPT !.lastSpawnTime = QInt(0)]
      after ==
        IF Len(tr.vehicles) >= MAX_VEHICLES THEN logged
        ELSE IF QLess(elapsed, QInt(1))
        THEN [logged EXCEPT !.lastSpawnTime = elapsed]
        ELSE IF /\ Len(residentialBuildings) > 0
                /\ Len(commercialBuildings) > 0
                     \/ Len(industrialBuildings) > 0
                /\ QLess(draws.chance, spawnChance)
        THEN createVehicle(due, rp,
                           randomElement(residentialBuildings, draws.origin),
                           randomElement(destinations, draws.destination),
                           draws)
        ELSE due
  IN [after EXCEPT !.spawnLog = [@ EXCEPT !.after = after.vehicles]]

\* congestionMap.get(key) || 0
CongestionAt(cm, key) == IF key \in DOMAIN cm THEN cm[key] ELSE 0

\* the body of updateVehicles' forEach for a vehicle that is not parked
MoveVehicle(vehicle, cm, delta) ==
  LET targetIndex == vehicle.currentPathIndex + 1
  IN IF targetIndex >= Len(vehicle.path)
     THEN [vehicle EXCEPT !.state = "parked"]
     ELSE LET target == vehicle.path[targetIndex + 1]
              targetWorld ==
                [x |-> QAdd(gridToWorld(target).x, Q(1, 2)),
                 z |-> QAdd(gridToWorld(target).z, Q(1, 2))]
              from == vehicle.position.from
              travelled == vehicle.position.travelled
              \* the square of the leg's length; the distance left is its
              \* root less the distance travelled
              d2 == Distance2(from, targetWorld)
              congestion == CongestionAt(cm, gridPositionToKey(target))
              speedMultiplier ==
                IF QLess(CONGESTION_THRESHOLD, QInt(congestion))
                THEN Q(1, 2) ELSE QInt(1)
              moveSpeed == QMul(QMul(vehicle.speed, speedMultiplier), delta)
          IN IF QLess(d2, QSquare(QAdd(travelled, ReachDistance)))
             THEN [vehicle EXCEPT
                     !.currentPathIndex = @ + 1,
                     !.position = AtPoint(targetWorld)]
             ELSE [vehicle EXCEPT
                     !.position =
                       \* factor = Math.min(moveSpeed / distance, 1)
                       IF QLeq(d2, QSquare(QAdd(travelled, moveSpeed)))
                       THEN AtPoint(targetWorld)
                       ELSE [from |-> from, to |-> targetWorld,
                             travelled |-> QAdd(travelled, moveSpeed)],
                     !.state =
                       IF QLess(CONGESTION_THRESHOLD, QInt(congestion))
                       THEN "waiting" ELSE "moving"]

\* TrafficSystem.updateVehicles: the vehicles that were parked when the
\* pass began are deleted after it, the others take their step
updateVehicles(tr, delta) ==
  LET Running(vehicle) == vehicle.state # "parked"
      kept == SelectSeq(tr.vehicles, Running)
  IN [tr EXCEPT !.vehicles =
        [i \in 1..Len(kept) |-> MoveVehicle(kept[i], tr.congestionMap,
                                            delta)]]

\* TrafficSystem.updateCongestion: the vehicles of each cell are counted,
\* and every road's trafficLoad is set from the count of its cell
updateCongestion(tr, rp) ==
  LET vs == tr.vehicles
      counted == [k \in {VehicleCell(vs[i]) : i \in 1..Len(vs)} |->
                    Cardinality({i \in 1..Len(vs) : VehicleCell(vs[i]) = k})]
  IN [tr EXCEPT
        !.congestionMap = counted,
        !.trafficLoad =
          [k \in Range(rp) |->
             QMin(Q(CongestionAt(counted, k), 3), QInt(1))]]

\* lib/constants
TICK_RATE == 60

\* the values Math.random() returns in a spawn; they are the first value in
\* an update whose spawn check is not due
SpawnDraws ==
  {draws \in [chance : RandomDraws, origin : RandomDraws,
              destination : RandomDraws, type : RandomDraws,
              speed : RandomDraws] :
     QLess(QAdd(lastSpawnTime, fixedDelta), QInt(1))
       => \A f \in DOMAIN draws : draws[f] = Q(0, 1)}

\* TrafficSystem.update(delta, gameTime) with the game loop's delta
TrafficUpdate(draws) ==
  /\ impl = "store"
  /\ \E tr \in {updateCongestion(
                  updateVehicles(
                    spawnVehicles(
                      [vehicles |-> vehicles,
                       congestionMap |-> congestionMap,
                       lastSpawnTime |-> lastSpawnTime,
                       trafficLoad |-> trafficLoad,
                       spawnLog |-> spawnLog],
                      buildings, roadLayout, fixedDelta, draws),
                    fixedDelta),
                  roadLayout)} :
        /\ vehicles' = tr.vehicles
        /\ congestionMap' = tr.congestionMap
        /\ lastSpawnTime' = tr.lastSpawnTime
        /\ trafficLoad' = tr.trafficLoad
        /\ spawnLog' = tr.spawnLog
  /\ UNCHANGED <<roadLayout, query, pathResult, fixedDelta, eventBus,
                 gameLoop>>
  /\ UNCHANGED <<impl, worldVars, schedVars, simVars>>

(***************************************************************************)
(* game/core/EventBus.  A listener Set is an object: the unsubscribe       *)
(* closure that subscribe returns keeps the Set it added its callback to.  *)
(* A Set is the list of its entries in insertion order, a deleted entry    *)
(* left as an empty slot while a forEach may be running over it.           *)
(***************************************************************************)
maxHistorySize == 100
NoSet == 0

\* the callbacks a host subscribes: one that only takes the event, one that
\* throws when it is first invoked, one that publishes an event of the same
\* type when it is first invoked
Callbacks == {"record", "throwFirst", "republishFirst"}

EmptySlot == [kind |-> "empty", callback |-> "", subscription |-> 0]
\* the function subscribe adds to the Set: the callback itself, or the
\* wrapper subscribeOnce makes for its subscription
CallbackFn(callback) ==
  [kind |-> "callback", callback |-> callback, subscription |-> 0]
OnceFn(callback, subscription) ==
  [kind |-> "once", callback |-> callback, subscription |-> subscription]

\* Set.size, Set.delete and Set.add
SetSize(entries) ==
  Cardinality({k \in DOMAIN entries : entries[k] # EmptySlot})
SetDelete(entries, fn) ==
  [k \in DOMAIN entries |-> IF entries[k] = fn THEN EmptySlot ELSE entries[k]]
SetAdd(entries, fn) ==
  IF \E k \in DOMAIN entries : entries[k] = fn THEN entries
  ELSE Append(entries, fn)

\* subscribe(eventType, fn), the closure it returns kept as a subscription
subscribe(bus, eventType, fn) ==
  LET fresh == bus.listeners[eventType] = NoSet
      sets == IF fresh THEN Append(bus.sets, << >>) ELSE bus.sets
      callbacks == IF fresh THEN Len(sets) ELSE bus.listeners[eventType]
  IN [bus EXCEPT
        !.listeners = [bus.listeners EXCEPT ![eventType] = callbacks],
        !.sets = [sets EXCEPT ![callbacks] = SetAdd(sets[callbacks], fn)],
        !.subscriptions =
          Append(bus.subscriptions,
                 [type |-> eventType, callbacks |-> callbacks, fn |-> fn,
                  unsubscribed |-> FALSE, invoked |-> 0])]

\* the closure subscribe returned for subscription i: the callback leaves
\* the Set the closure holds, and the event type's entry of listeners is
\* deleted when that Set is empty
unsubscribe(bus, i) ==
  LET s == bus.subscriptions[i]
      entries == SetDelete(bus.sets[s.callbacks], s.fn)
  IN [bus EXCEPT
        !.sets = [bus.sets EXCEPT ![s.callbacks] = entries],
        !.listeners = IF SetSize(entries) = 0
                      THEN [bus.listeners EXCEPT ![s.type] = NoSet]
                      ELSE bus.listeners,
        !.subscriptions =
          [k \in DOMAIN bus.subscriptions |->
             IF bus.subscriptions[k].fn = s.fn
                  /\ bus.subscriptions[k].callbacks = s.callbacks
             THEN [bus.subscriptions[k] EXCEPT !.unsubscribed = TRUE]
             ELSE bus.subscriptions[k]]]

\* eventHistory.push(event) with the newest event dropped when full
pushHistoryDropNewest(history, event) ==
  IF Len(history) + 1 > maxHistorySize THEN history
  ELSE Append(history, event)

\* eventHistory.push(event); if (length > maxHistorySize) shift()
pushHistory(history, event) ==
  IF Len(history) + 1 > maxHistorySize THEN Tail(Append(history, event))
  ELSE Append(history, event)

RECURSIVE publish(_, _)
RECURSIVE forEach(_, _, _, _)
RECURSIVE invoke(_, _, _)
RECURSIVE runCallback(_, _, _)

\* publish(eventType, payload): the event's id stands for its payload and
\* timestamp
publish(bus, eventType) ==
  LET event == [type |-> eventType, id |-> bus.published + 1]
      pushed == [bus EXCEPT !.eventHistory = pushHistory(bus.eventHistory,
                                                         event),
                            !.published = bus.published + 1]
      callbacks == pushed.listeners[eventType]
  IN IF callbacks = NoSet THEN pushed
     ELSE forEach(pushed, callbacks, 1, event)

\* callbacks.forEach from slot k on: the walk is over the live Set, so it
\* skips the slots emptied meanwhile
forEach(bus, callbacks, k, event) ==
  IF k > Len(bus.sets[callbacks]) THEN bus
  ELSE IF bus.sets[callbacks][k] = EmptySlot
       THEN forEach(bus, callbacks, k + 1, event)
       ELSE forEach(invoke(bus, bus.sets[callbacks][k], event), callbacks,
                    k + 1, event)

\* try { callback(event) } catch: a subscribeOnce wrapper calls its callback
\* and then its unsubscribe closure, which a throw of the callback skips
invoke(bus, fn, event) ==
  IF fn.kind = "callback" THEN runCallback(bus, fn.callback, event).bus
  ELSE LET i == fn.subscription
           counted == [bus EXCEPT !.subscriptions =
                         [bus.subscriptions EXCEPT ![i] =
                            [bus.subscriptions[i] EXCEPT
                               !.invoked = bus.subscriptions[i].invoked + 1]]]
           run == runCallback(counted, fn.callback, event)
       IN IF run.threw THEN run.bus ELSE unsubscribe(run.bus, i)

\* the body of a callback
runCallback(bus, callback, event) ==
  LET first == bus.calls[callback] = 0
      called == [bus EXCEPT !.calls = [bus.calls EXCEPT ![callback] =
                                         bus.calls[callback] + 1]]
  IN CASE callback = "throwFirst" /\ first ->
            [bus |-> called, threw |-> TRUE]
       [] callback = "republishFirst" /\ first ->
            [bus |-> publish(called, event.type), threw |-> FALSE]
       [] OTHER -> [bus |-> called, threw |-> FALSE]

\* the Sets without their empty slots, as they are once no forEach runs
Settled(bus) ==
  [bus EXCEPT !.sets = [k \in DOMAIN bus.sets |->
                          SelectSeq(bus.sets[k],
                                    LAMBDA fn : fn # EmptySlot)]]

BusStart ==
  eventBus = [listeners |-> [t \in {"building:placed", "road:placed"} |->
                               NoSet],
              sets |-> << >>, subscriptions |-> << >>,
              eventHistory |-> << >>, published |-> 0,
              calls |-> [c \in Callbacks |-> 0]]

BusFrame == UNCHANGED <<impl, worldVars, schedVars, simVars, roadLayout,
                        query, pathResult, trafficVars, gameLoop>>

\* EventBus.subscribe(eventType, callback)
Subscribe(eventType, callback) ==
  /\ Len(eventBus.subscriptions) < MaxSubscriptions
  /\ eventBus' = subscribe(eventBus, eventType, CallbackFn(callback))
  /\ BusFrame

\* EventBus.subscribeOnce(eventType, callback)
SubscribeOnce(eventType, callback) ==
  /\ Len(eventBus.subscriptions) < MaxSubscriptions
  /\ eventBus' = subscribe(eventBus, eventType,
                           OnceFn(callback,
                                  Len(eventBus.subscriptions) + 1))
  /\ BusFrame

\* a call of the closure that subscribe or subscribeOnce returned for
\* subscription i, for the first time or again
Unsubscribe(i) ==
  /\ i \in DOMAIN eventBus.subscriptions
  /\ eventBus' = Settled(unsubscribe(eventBus, i))
  /\ BusFrame

\* EventBus.publish(eventType, payload) by a caller outside the callbacks,
\* while no more than most events are published
PublishWithin(eventType, most) ==
  /\ \E bus \in {Settled(publish(eventBus, eventType))} :
       /\ bus.published <= most
       /\ eventBus' = bus
  /\ BusFrame

Publish(eventType) == PublishWithin(eventType, MaxPublished)

(***************************************************************************)
(* game/core/GameLoop and the speed controls of GameEngine.  Times are     *)
(* counted in 1/TICK_RATE of a millisecond, in which fixedDelta, 1000 /    *)
(* TICK_RATE ms, is a whole number.  A requestAnimationFrame callback is   *)
(* queued until its frame fires; the update and game-minute callbacks of a *)
(* frame are counted, their effect on the game is that of Tick and         *)
(* AdvanceTime.                                                            *)
(***************************************************************************)
\* t milliseconds in time units
Ms(t) == t * TICK_RATE
GAME_MINUTE_MS == 500
GAME_SPEEDS == [paused |-> 0, normal |-> 1, fast |-> 3, ultra |-> 10]
\* private readonly fixedDelta = 1000 / TICK_RATE
fixedDeltaMs == Ms(1000) \div TICK_RATE
\* Math.min(deltaTime, this.fixedDelta * 5)
MaxCatchUp == 5
\* the game-minute callbacks are counted modulo MinuteCycle
MinuteCycle == 4

\* the value of a step of a loop, computed once before the loop goes on
Only(values) == CHOOSE v \in values : TRUE

\* while (gameTimeAccumulator >= GAME_MINUTE_MS): onGameMinute()
RECURSIVE GameMinutes(_)
GameMinutes(l) ==
  IF l.gameTimeAccumulator >= Ms(GAME_MINUTE_MS)
  THEN Only({GameMinutes(next) :
               next \in {[l EXCEPT
                            !.gameTimeAccumulator = @ - Ms(GAME_MINUTE_MS),
                            !.minutes = @ + 1,
                            !.minuteCount = (@ + 1) % MinuteCycle]}})
  ELSE l

\* one pass of the fixed-step loop: the update callbacks and the game
\* time, unless paused
FixedStep(l) ==
  IF l.isPaused THEN [l EXCEPT !.accumulator = @ - fixedDeltaMs]
  ELSE Only({GameMinutes(stepped) :
               stepped \in {[l EXCEPT
                               !.updates = @ + 1,
                               !.gameTimeAccumulator =
                                  @ + fixedDeltaMs * GAME_SPEEDS[l.gameSpeed],
                               !.accumulator = @ - fixedDeltaMs]}})

\* while (accumulator >= fixedDelta)
RECURSIVE FixedSteps(_)
FixedSteps(l) ==
  IF l.accumulator >= fixedDeltaMs
  THEN Only({FixedSteps(next) : next \in {FixedStep(l)}})
  ELSE l

\* GameLoop.loop(currentTime) of one queued callback, deltaTime being
\* currentTime - lastTime
loop(l, deltaTime) ==
  IF ~l.isRunning
  THEN [l EXCEPT !.pending = l.pending - 1, !.updates = 0, !.minutes = 0]
  \* the callback leaves the queue and requests the next frame
  ELSE Only({FixedSteps(first) :
               first \in {[l EXCEPT
                             !.accumulator =
                                @ + Min(deltaTime, fixedDeltaMs * MaxCatchUp),
                             !.updates = 0, !.minutes = 0]}})

\* GameLoop.start()
start(l) ==
  IF l.isRunning THEN l
  ELSE [l EXCEPT !.isRunning = TRUE, !.accumulator = 0,
                 !.gameTimeAccumulator = 0,
                 !.pending = l.pending + 1]

\* GameLoop.setSpeed and GameLoop.setPaused
setSpeed(l, speed) ==
  [l EXCEPT !.gameSpeed = speed, !.isPaused = (speed = "paused")]
setPaused(l, paused) == [l EXCEPT !.isPaused = paused]
\* gameStore.setGameSpeed
setGameSpeed(l, speed) ==
  [l EXCEPT !.storeSpeed = speed, !.storePaused = (speed = "paused")]

\* the loop and the game store as constructed
LoopStart ==
  gameLoop = [isRunning |-> FALSE, isPaused |-> FALSE,
              gameSpeed |-> "normal", accumulator |-> 0,
              gameTimeAccumulator |-> 0, pending |-> 0,
              storeSpeed |-> "normal", storePaused |-> FALSE,
              updates |-> 0, minutes |-> 0, minuteCount |-> 0,
              lastCall |-> "none"]

LoopFrame == UNCHANGED <<impl, worldVars, schedVars, simVars, roadLayout,
                         query, pathResult, trafficVars, eventBus>>

\* GameLoop.start(), as GameEngine.initialize calls it
Start ==
  /\ gameLoop.pending < MaxQueued
  /\ gameLoop' = [start(gameLoop) EXCEPT !.lastCall = "start"]
  /\ LoopFrame

\* GameLoop.stop(), as GameEngine.shutdown calls it
Stop ==
  /\ gameLoop' = [gameLoop EXCEPT !.isRunning = FALSE, !.lastCall = "stop"]
  /\ LoopFrame

\* the browser runs one queued frame callback
Frame(deltaTime) ==
  /\ gameLoop.pending > 0
  /\ gameLoop' = loop(gameLoop, deltaTime)
  /\ LoopFrame

\* GameEngine.setSpeed(speed)
EngineSetSpeed(speed) ==
  /\ gameLoop' = [setGameSpeed(setSpeed(gameLoop, speed), speed)
                    EXCEPT !.lastCall = "setSpeed"]
  /\ LoopFrame

\* GameEngine.pause()
EnginePause ==
  /\ gameLoop' = [setGameSpeed(setPaused(gameLoop, TRUE), "paused")
                    EXCEPT !.lastCall = "pause"]
  /\ LoopFrame

\* GameEngine.resume()
EngineResume ==
  /\ gameLoop' = [setGameSpeed(setPaused(gameLoop, FALSE), "normal")
                    EXCEPT !.lastCall = "resume"]
  /\ LoopFrame

(***************************************************************************)
(* Resets                                                                  *)
(***************************************************************************)
\* the markers after the reset() of each system of the registry sys:
\* EconomySystem sets lastUpdateHour, ZoningSystem and PopulationSystem
\* set lastUpdateDay to -1
ResetMarkers(sys, markers) ==
  [n \in DOMAIN markers |-> IF n \in Range(sys) THEN 0 - 1 ELSE markers[n]]

\* the traffic fields after the systems' reset(): TrafficSystem.reset
\* clears the vehicles and the congestion map when it is registered
ResetTraffic(sys) ==
  IF "traffic" \in Range(sys)
  THEN /\ vehicles' = << >>
       /\ congestionMap' = EmptyMap
       /\ lastSpawnTime' = QInt(0)
  ELSE UNCHANGED <<vehicles, congestionMap, lastSpawnTime>>

\* SimulationManager.reset()
Reset ==
  /\ scheduler = "SimulationManager"
  /\ resets < MaxResets
  /\ resets' = resets + 1
  /\ lastUpdate' = ResetMarkers(systems, lastUpdate)
  /\ ResetTraffic(systems)
  /\ lastOp' = Op("reset", "done")
  /\ UNCHANGED <<impl, tiles, buildings, roads, balance, timers, nextId,
                 gridTiles, wmBuildings, wmRoads>>
  /\ UNCHANGED <<scheduler, systems, enabled, invoked, tickFaults, tickResult>>
  /\ UNCHANGED <<gameTime, balance24, economy, population, zoneDemand,
                 initialEconomy, ran, clockLog>>
  /\ UNCHANGED <<roadLayout, query, pathResult, trafficLoad, spawnLog,
                 fixedDelta, eventBus, gameLoop>>

\* GameEngine.resetGame(): cityStore.reset(), gameStore.reset() and the
\* reset() of the systems registered with the engine; the systems that
\* useGame registers with the SimulationManager are not among them
ResetGame ==
  /\ impl = "store"
  /\ resets < MaxResets
  /\ resets' = resets + 1
  /\ tiles' = initializeGrid
  /\ buildings' = EmptyMap
  /\ roads' = EmptyMap
  \* economy: initialEconomy, the module-level object with whatever the
  \* economy system wrote to it in place; no code writes its balance or
  \* its taxRates
  /\ balance' = StartingBalance
  /\ balance24' = 0
  /\ economy' = [income |-> initialEconomy.income,
                 expenses |-> initialEconomy.expenses,
                 taxRates |-> initialTaxRates]
  /\ initialEconomy' = [initialEconomy EXCEPT !.shared = TRUE]
  \* population: initialPopulation, which is only ever copied
  /\ population' = initialPopulation
  \* zoneDemand: initialZoneDemand, the object cityStore.zoneDemand has been
  \* all along and calculateDemand writes in place
  /\ UNCHANGED zoneDemand
  /\ gameTime' = initialGameTime
  /\ IF scheduler = "GameEngine"
     THEN /\ lastUpdate' = ResetMarkers(systems, lastUpdate)
          /\ ResetTraffic(systems)
     ELSE UNCHANGED <<lastUpdate, vehicles, congestionMap, lastSpawnTime>>
  /\ lastOp' = Op("resetGame", "done")
  /\ UNCHANGED <<impl, timers, nextId, gridTiles, wmBuildings, wmRoads>>
  /\ UNCHANGED <<scheduler, systems, enabled, invoked, tickFaults, tickResult>>
  /\ UNCHANGED <<ran, clockLog>>
  /\ UNCHANGED <<roadLayout, query, pathResult, trafficLoad, spawnLog,
                 fixedDelta, eventBus, gameLoop>>

(***************************************************************************)
(* Specifications                                                          *)
(***************************************************************************)
WorldStart ==
  /\ tiles = initializeGrid
  /\ buildings = EmptyMap
  /\ roads = EmptyMap
  /\ balance = StartingBalance
  /\ timers = 0
  /\ nextId = 1
  /\ lastOp = NoOp
  /\ gridTiles = GridInitialize
  /\ wmBuildings = EmptyMap
  /\ wmRoads = EmptyMap

SimStart ==
  /\ gameTime = initialGameTime
  /\ balance24 = 0
  /\ economy = [income |-> 0, expenses |-> 0, taxRates |-> initialTaxRates]
  /\ initialEconomy = [income |-> 0, expenses |-> 0, shared |-> TRUE]
  /\ population = initialPopulation
  /\ zoneDemand = initialZoneDemand
  /\ lastUpdate = [economy |-> 0 - 1, zoning |-> 0 - 1, population |-> 0 - 1]
  /\ ran = {}
  /\ clockLog = [last |-> NoClock, monotone |-> TRUE]

\* the traffic system as constructed
TrafficStart ==
  /\ vehicles = << >>
  /\ congestionMap = EmptyMap
  /\ lastSpawnTime = QInt(0)
  /\ trafficLoad = EmptyMap
  /\ spawnLog = NoSpawn
  /\ fixedDelta = Q(1, TICK_RATE)

\* no road layout under query
PathStart ==
  /\ roadLayout = << >>
  /\ query = [start |-> Pos(0, 0), end |-> Pos(0, 0)]
  /\ pathResult = NoResult
  /\ TrafficStart
  /\ BusStart
  /\ LoopStart

SchedStart ==
  /\ systems = IF scheduler = "SimulationManager" THEN RegistrationOrder
               ELSE << >>
  /\ enabled = [n \in Range(systems) |-> TRUE]
  /\ invoked = << >>
  /\ tickFaults = {}
  /\ tickResult = NoTick
  /\ resets = 0

\* the world model: the engine initialized, one implementation driven
Init ==
  /\ impl \in {"store", "world"}
  /\ scheduler = "SimulationManager"
  /\ WorldStart
  /\ SchedStart
  /\ SimStart
  /\ PathStart

Next ==
  \/ \E d \in InputDefinitionIds, p \in InputPositions, r \in Rotations :
       PlaceBuilding(d, p, r)
  \/ \E b \in 1..MaxIds : RemoveBuilding(b)
  \/ \E p \in InputPositions : PlaceRoad(p)
  \/ \E r \in 1..MaxIds : RemoveRoad(r)
  \/ \E p \in ZonePositions, z \in Zones \cup {NoZone} : SetZone(p, z)
  \/ TimerFire
  \/ SimulateCity
  \/ \E d \in PlacedDefinitionIds, p \in InputPositions, r \in Rotations :
       WorldPlaceBuilding(d, p, r)
  \/ \E b \in 1..MaxWorldIds : WorldRemoveBuilding(b)
  \/ \E p \in InputPositions : WorldPlaceRoad(p)
  \/ \E r \in 1..MaxWorldIds : WorldRemoveRoad(r)
  \/ \E p \in ZonePositions, z \in Zones \cup {NoZone} : WorldSetZone(p, z)

Spec == Init /\ [][Next]_vars

\* the world model under save and load: edits, then load(save())
SaveNext ==
  \/ \E d \in InputDefinitionIds, p \in InputPositions, r \in Rotations :
       PlaceBuilding(d, p, r)
  \/ \E b \in 1..MaxIds : RemoveBuilding(b)
  \/ \E p \in InputPositions : PlaceRoad(p)
  \/ \E r \in 1..MaxIds : RemoveRoad(r)
  \/ \E p \in ZonePositions, z \in Zones \cup {NoZone} : SetZone(p, z)
  \/ TimerFire
  \/ \E shape \in LoadShapes : Load(shape)
  \/ \E d \in PlacedDefinitionIds, p \in InputPositions, r \in Rotations :
       WorldPlaceBuilding(d, p, r)
  \/ \E b \in 1..MaxWorldIds : WorldRemoveBuilding(b)
  \/ \E p \in InputPositions : WorldPlaceRoad(p)
  \/ \E r \in 1..MaxWorldIds : WorldRemoveRoad(r)
  \/ \E p \in ZonePositions, z \in Zones \cup {NoZone} : WorldSetZone(p, z)
  \/ \E shape \in LoadShapes : WorldDeserialize(shape)

SpecSave == Init /\ [][SaveNext]_vars

\* the scheduler: either update loop driven
SchedInit ==
  /\ impl = "store"
  /\ scheduler \in {"SimulationManager", "GameEngine"}
  /\ WorldStart
  /\ SchedStart
  /\ SimStart
  /\ PathStart

MaxFaults == 1

SchedNext ==
  \/ \E n \in SystemNames : Register(n)
  \/ \E n \in SystemNames : Unregister(n)
  \/ \E n \in SystemNames, f \in BOOLEAN : SetEnabled(n, f)
  \/ \E faults \in SUBSET SystemNames :
       Cardinality(faults) <= MaxFaults /\ Update(faults)

SpecSched == SchedInit /\ [][SchedNext]_vars

\* the store under spending: edits, and withdrawals that bring the balance
\* down to the cost of a road and below
FundsInit ==
  /\ impl = "store"
  /\ scheduler = "SimulationManager"
  /\ WorldStart
  /\ SchedStart
  /\ SimStart
  /\ PathStart

Amounts == {0 - Spend}

FundsNext ==
  \/ \E d \in InputDefinitionIds, p \in InputPositions, r \in Rotations :
       PlaceBuilding(d, p, r)
  \/ \E b \in 1..MaxIds : RemoveBuilding(b)
  \/ \E p \in InputPositions : PlaceRoad(p)
  \/ \E r \in 1..MaxIds : RemoveRoad(r)
  \/ TimerFire
  \/ \E amount \in Amounts : UpdateBalance(amount)

SpecFunds == FundsInit /\ [][FundsNext]_vars

\* the store under the clock: manual placement, the clock advancing by
\* half a day or a day, and any number of frames' ticks at each clock
ClockSteps == {720, 1440}

ClockInit ==
  /\ impl = "store"
  /\ scheduler = "SimulationManager"
  /\ WorldStart
  /\ SchedStart
  /\ SimStart
  /\ PathStart

ClockNext ==
  \/ \E d \in PlacedDefinitionIds, p \in ZonePositions, r \in Rotations :
       PlaceBuilding(d, p, r)
  \/ TimerFire
  \/ \E minutes \in ClockSteps : AdvanceTime(minutes)
  \/ \E picks \in Picks : Tick(picks)

SpecClock == ClockInit /\ [][ClockNext]_vars

\* the clock alone: onGameMinute's advanceTime(1), and advanceTime with no
\* minute or a whole hour
MinuteSteps == {0, 1, 60}

MinuteNext == \E minutes \in MinuteSteps : AdvanceTime(minutes)

SpecMinutes == ClockInit /\ [][MinuteNext]_vars

\* the store under both growth paths: zoning, utilities, the hourly
\* simulateCity of GameLoop and the scheduler's daily zoning step, over two
\* simulated days
GrowSteps == {1440}

UtilityIds == {"power_plant_coal", "water_tower"}

\* where a caller places them: the plant fits at the first, and leaves the
\* second and the zoned corner free
UtilityPositions == {Pos(1, 0), Pos(0, 1)}

GrowNext ==
  \/ \E p \in ZonePositions, z \in Zones : SetZone(p, z)
  \/ \E d \in UtilityIds, p \in UtilityPositions, r \in Rotations :
       PlaceBuilding(d, p, r)
  \/ TimerFire
  \/ SimulateCity
  \/ \E minutes \in GrowSteps : AdvanceTime(minutes)
  \/ \E picks \in Picks : Tick(picks)

SpecGrow == ClockInit /\ [][GrowNext]_vars

\* a single winding road across the city grid: every second row from west
\* to east or back, joined at alternating ends; its i-th cell, from 0
CorridorCell(i) ==
  LET b == i \div (GRID_SIZE + 1)
      o == i % (GRID_SIZE + 1)
      eastward == b % 2 = 0
  IN IF o < GRID_SIZE
     THEN <<IF eastward THEN o ELSE GRID_SIZE - 1 - o, 2 * b>>
     ELSE <<IF eastward THEN GRID_SIZE - 1 ELSE 0, 2 * b + 1>>

\* the road of n cells, in the order it was laid
Corridor(n) == [i \in 1..n |-> CorridorCell(i - 1)]

\* the lengths of the winding roads asked about: around the expansion cap
CorridorSpan == 6

CorridorLengths ==
  (MaxExpansions - CorridorSpan + 1)..(MaxExpansions + CorridorSpan)

\* findPath over every road layout of the path grid, asked for a way
\* between two of the layout's road cells or the grid's corner, and over
\* the winding roads, asked for the way from one end to the other
PathInit ==
  /\ impl = "store"
  /\ scheduler = "SimulationManager"
  /\ WorldStart
  /\ SchedStart
  /\ SimStart
  /\ \/ \E S \in SUBSET PathCells :
          /\ roadLayout = TileOrder(S)
          /\ query \in [start : {keyToGridPosition(k) : k \in S}
                                 \cup {Pos(0, 0)},
                        end : {keyToGridPosition(k) : k \in S}
                               \cup {Pos(0, 0)}]
     \/ \E n \in CorridorLengths :
          /\ roadLayout = Corridor(n)
          /\ query = [start |-> keyToGridPosition(CorridorCell(0)),
                      end |-> keyToGridPosition(CorridorCell(n - 1))]
  /\ pathResult = NoResult
  /\ TrafficStart
  /\ BusStart
  /\ LoopStart

PathNext == FindPath

SpecPath == PathInit /\ [][PathNext]_vars

\* the rates setTaxRate is called with: the scenario's 10 and a rate above
\* MAX_TAX_RATE
TaxRateInputs == {10, 25}

TaxNext ==
  \/ ClockNext
  \/ \E rate \in TaxRateInputs : SetTaxRate("residential", rate)
  \/ Load("ok")

SpecTax == ClockInit /\ [][TaxNext]_vars

\* the store under the clock and the two resets, in a city of utility
\* buildings
ResetNext ==
  \/ \E d \in UtilityIds, p \in UtilityPositions, r \in Rotations :
       PlaceBuilding(d, p, r)
  \/ TimerFire
  \/ \E minutes \in ClockSteps : AdvanceTime(minutes)
  \/ \E picks \in Picks : Tick(picks)
  \/ Reset
  \/ ResetGame

SpecReset == ClockInit /\ [][ResetNext]_vars

\* the daily zoning step over MaxDays days: the clock advancing a day at a
\* time, houses and commercial buildings placed by hand, the population
\* system disabled (system.enabled = false), and the population either as
\* constructed or as a loaded game has it
MaxDays == 5

DayPasses ==
  /\ gameTime.day < MaxDays
  /\ gameTime' = advanceTime(gameTime, 1440)
  /\ UNCHANGED <<balance24, economy, population, zoneDemand, initialEconomy,
                 lastUpdate, ran, clockLog>>
  /\ UNCHANGED <<impl, worldVars, schedVars>>
  /\ UNCHANGED pathVars

DemandDefinitionIds == {"building_small_a", "commercial_skyscraper"}
DemandPositions == {Pos(0, 0), Pos(GridW - 1, GridH - 1)}
LoadedPopulation ==
  [initialPopulation EXCEPT !.total = 10, !.workers = 10, !.employed = 10,
                            !.employmentRate = QInt(1)]

DemandInit ==
  /\ impl = "store"
  /\ scheduler = "SimulationManager"
  /\ WorldStart
  /\ systems = RegistrationOrder
  /\ enabled = [n \in Range(systems) |-> n # "population"]
  /\ invoked = << >>
  /\ tickFaults = {}
  /\ tickResult = NoTick
  /\ resets = 0
  /\ gameTime = initialGameTime
  /\ balance24 = 0
  /\ economy = [income |-> 0, expenses |-> 0, taxRates |-> initialTaxRates]
  /\ population \in {initialPopulation, LoadedPopulation}
  \* a loaded city's economy is the object load() built
  /\ initialEconomy = [income |-> 0, expenses |-> 0,
                       shared |-> population = initialPopulation]
  /\ zoneDemand = initialZoneDemand
  /\ lastUpdate = [economy |-> 0 - 1, zoning |-> 0 - 1, population |-> 0 - 1]
  /\ ran = {}
  /\ clockLog = [last |-> NoClock, monotone |-> TRUE]
  /\ PathStart

DemandNext ==
  \/ \E d \in DemandDefinitionIds, p \in DemandPositions, r \in Rotations :
       PlaceBuilding(d, p, r)
  \/ TimerFire
  \/ DayPasses
  \/ \E picks \in Picks : Tick(picks)

SpecDemand == DemandInit /\ [][DemandNext]_vars

\* the population system over a city of houses and commercial buildings
\* placed by hand, for the two days the clock can reach
JobsNext ==
  \/ \E d \in DemandDefinitionIds, p \in DemandPositions, r \in Rotations :
       PlaceBuilding(d, p, r)
  \/ TimerFire
  \/ \E minutes \in GrowSteps : AdvanceTime(minutes)
  \/ \E picks \in Picks : Tick(picks)

SpecJobs == ClockInit /\ [][JobsNext]_vars

\* the event bus under its callers: subscriptions of the three callbacks,
\* calls of the closures handed out, and events of two types published
EventTypes == {"building:placed", "road:placed"}

BusNext ==
  \/ \E t \in EventTypes, c \in Callbacks : Subscribe(t, c)
  \/ \E t \in EventTypes, c \in Callbacks : SubscribeOnce(t, c)
  \/ \E i \in 1..MaxSubscriptions : Unsubscribe(i)
  \/ \E t \in EventTypes : Publish(t)

SpecBus == ClockInit /\ [][BusNext]_vars

\* the event bus over a long run of events of one type, with at most one
\* subscription, of the callback that publishes
HistoryNext ==
  \/ PublishWithin("building:placed", MaxHistoryRun)
  \/ /\ eventBus.subscriptions = << >>
     /\ Subscribe("building:placed", "republishFirst")
  \/ /\ eventBus.subscriptions = << >>
     /\ SubscribeOnce("building:placed", "republishFirst")
  \/ Unsubscribe(1)

SpecHistory == ClockInit /\ [][HistoryNext]_vars

\* the game loop under its callers: start and stop, the speed controls of
\* the engine, and frames that arrive on time, late, and after a stall
FrameTimes == {fixedDeltaMs, Ms(25), Ms(200)}
SpeedInputs == {"paused", "normal", "fast"}

LoopNext ==
  \/ Start
  \/ Stop
  \/ \E deltaTime \in FrameTimes : Frame(deltaTime)
  \/ \E speed \in SpeedInputs : EngineSetSpeed(speed)
  \/ EnginePause
  \/ EngineResume

SpecLoop == ClockInit /\ [][LoopNext]_vars

\* the loop once started and never stopped, with frames that keep arriving
FrameArrives == \E deltaTime \in FrameTimes : Frame(deltaTime)

RunningNext ==
  \/ Start
  \/ FrameArrives
  \/ \E speed \in SpeedInputs : EngineSetSpeed(speed)
  \/ EnginePause
  \/ EngineResume

\* the browser keeps delivering animation frames: a queued callback is
\* eventually run
SpecRunning == ClockInit /\ [][RunningNext]_vars /\ WF_vars(FrameArrives)

\* the cities the traffic system runs in: a house at (0, 1) and a
\* commercial building, with the roads of the row z = 0 given in Map order
HousePosition == Pos(0, 1)

TrafficCities ==
  { [roads |-> << >>, destination |-> Pos(1, 1)],
    [roads |-> <<<<0, 0>>, <<1, 0>>>>, destination |-> Pos(1, 1)],
    [roads |-> <<<<0, 0>>, <<2, 0>>>>, destination |-> Pos(1, 1)],
    [roads |-> <<<<0, 0>>, <<3, 0>>>>, destination |-> Pos(3, 1)] }

\* the steps of the game loop: 1 / TICK_RATE seconds, and a slow loop's
FixedDeltas == {Q(1, TICK_RATE), Q(1, 2)}

\* the occupancy of the house: below and above the spawn minimum
HouseOccupancies == {QInt(10), QInt(50)}

CityBuildings(city, occupancy) ==
  LET house == [newBuilding(1, "building_small_a", HousePosition, 0)
                  EXCEPT !.occupancy = occupancy]
      shop == [newBuilding(2, "commercial_skyscraper", city.destination, 0)
                 EXCEPT !.occupancy = QInt(50)]
  IN MapSet(MapSet(EmptyMap, house.id, house), shop.id, shop)

TrafficInit ==
  /\ impl = "store"
  /\ scheduler = "SimulationManager"
  /\ tiles = initializeGrid
  /\ roads = EmptyMap
  /\ balance = StartingBalance
  /\ timers = 0
  /\ nextId = 3
  /\ lastOp = NoOp
  /\ gridTiles = GridInitialize
  /\ wmBuildings = EmptyMap
  /\ wmRoads = EmptyMap
  /\ SchedStart
  /\ SimStart
  /\ \E city \in TrafficCities, occupancy \in HouseOccupancies :
       /\ buildings = CityBuildings(city, occupancy)
       /\ roadLayout = city.roads
  /\ query = [start |-> Pos(0, 0), end |-> Pos(0, 0)]
  /\ pathResult = NoResult
  /\ BusStart
  /\ LoopStart
  /\ vehicles = << >>
  /\ congestionMap = EmptyMap
  /\ lastSpawnTime = QInt(0)
  /\ trafficLoad = EmptyMap
  /\ spawnLog = NoSpawn
  /\ fixedDelta \in FixedDeltas

TrafficNext == \E draws \in SpawnDraws : TrafficUpdate(draws)

SpecTraffic == TrafficInit /\ [][TrafficNext]_vars

(***************************************************************************)
(* Properties                                                              *)
(***************************************************************************)
\* the tiles that hold a building and a road at once
DoublyOccupied(ts) ==
  {k \in DOMAIN ts : ts[k].buildingId # NoId /\ ts[k].roadId # NoId}

\* C1: in every state reached by placeBuilding, removeBuilding, placeRoad,
\* removeRoad, setZone and organic growth, no tile holds both a building id
\* and a road id (in the store's tiles and in the WorldManager's grid).
C1_OneOccupantKind ==
  /\ DoublyOccupied(tiles) = {}
  /\ DoublyOccupied(gridTiles) = {}

\* growth has run over a city that holds a building and a zoned road tile
C1_Witness ==
  /\ lastOp = Op("simulateCity", "grown")
  /\ \E k \in DOMAIN tiles : tiles[k].roadId # NoId /\ tiles[k].zone # NoZone
  /\ \E k \in DOMAIN tiles : tiles[k].buildingId # NoId

\* the implementation's tiles and buildings
TilesOf(i, st, gt) == IF i = "store" THEN st ELSE gt
BuildingsOf(i, sb, wb) == IF i = "store" THEN sb ELSE wb
RoadsOf(i, sr, wr) == IF i = "store" THEN sr ELSE wr

\* the footprint of building b according to the catalog
FootprintOf(b) ==
  Footprint(b.position, DEFAULT_BUILDINGS[b.definitionId].width,
            DEFAULT_BUILDINGS[b.definitionId].depth)

\* every cell of the set is a tile of ts that holds no building and no road
AllFree(ts, cells) ==
  \A p \in cells :
    /\ <<p.x, p.z>> \in DOMAIN ts
    /\ ts[<<p.x, p.z>>].buildingId = NoId
    /\ ts[<<p.x, p.z>>].roadId = NoId

\* C2: placeBuilding is atomic on failure: a call that returns no building
\* leaves every tile, the building set and the balance as they were, and a
\* call returns a building only if the whole footprint was inside the grid
\* and free of buildings and roads.
C2_PlaceBuildingAtomicOnFailure ==
  [][ /\ lastOp' = Op("placeBuilding", "null")
           => /\ tiles' = tiles
              /\ buildings' = buildings
              /\ balance' = balance
              /\ gridTiles' = gridTiles
              /\ wmBuildings' = wmBuildings
      /\ lastOp' = Op("placeBuilding", "building") /\ nextId' # nextId
           => AllFree(TilesOf(impl, tiles, gridTiles),
                      FootprintOf(BuildingsOf(impl, buildings',
                                              wmBuildings')[nextId]))
    ]_vars

\* a placeBuilding call was refused in a city that holds a building
C2_Witness ==
  /\ lastOp = Op("placeBuilding", "null")
  /\ \E k \in DOMAIN TilesOf(impl, tiles, gridTiles) :
       TilesOf(impl, tiles, gridTiles)[k].buildingId # NoId

\* the keys road r lists in its connections
ConnectedTo(r) == {r.connections[i].connectedTo : i \in 1..Len(r.connections)}

KeyOf(r) == <<r.position.x, r.position.z>>

\* two roads on orthogonally adjacent cells
AdjacentRoads(a, b) ==
  Abs(a.position.x - b.position.x) + Abs(a.position.z - b.position.z) = 1

\* road a lists road b exactly when road b lists road a
SymmetricConnections(rs) ==
  \A a, b \in DOMAIN rs :
    KeyOf(rs[b]) \in ConnectedTo(rs[a]) <=> KeyOf(rs[a]) \in ConnectedTo(rs[b])

\* the road a placeRoad call has just placed and every road next to it list
\* each other
NewRoadConnected(rs, new) ==
  \A o \in DOMAIN rs \ {new} :
    AdjacentRoads(rs[new], rs[o])
      => /\ KeyOf(rs[o]) \in ConnectedTo(rs[new])
         /\ KeyOf(rs[new]) \in ConnectedTo(rs[o])

\* C3: after any sequence of placeRoad, removeRoad and load, road
\* connections are symmetric, and a road just placed and the roads on its
\* orthogonally adjacent cells list each other.
C3_SymmetricRoadConnections ==
  /\ SymmetricConnections(roads)
  /\ SymmetricConnections(wmRoads)
  /\ lastOp = Op("placeRoad", "road")
       => NewRoadConnected(RoadsOf(impl, roads, wmRoads), nextId - 1)

\* a road was placed next to a road that a load had left without
\* connections: the two list each other, and the loaded road and its loaded
\* neighbour list neither
C3_Witness ==
  /\ lastOp = Op("placeRoad", "road")
  /\ impl = "store"
  /\ \E a, b \in DOMAIN roads :
       /\ AdjacentRoads(roads[a], roads[b])
       /\ KeyOf(roads[b]) \notin ConnectedTo(roads[a])
       /\ AdjacentRoads(roads[a], roads[nextId - 1])
       /\ KeyOf(roads[a]) \in ConnectedTo(roads[nextId - 1])

\* building b lies within the service radius of building s
Serves(s, b) ==
  LET r == DEFAULT_BUILDINGS[s.definitionId].serviceRadius
      dx == b.position.x - s.position.x
      dz == b.position.z - s.position.z
  IN dx * dx + dz * dz <= r * r

ServiceOf(b) == DEFAULT_BUILDINGS[b.definitionId].serviceType

\* the coverage rule: powered exactly within the radius of an active power
\* building, watered exactly within the radius of an active, powered water
\* building
CoverageRule(bs) ==
  \A b \in DOMAIN bs :
    /\ bs[b].isPowered
         <=> \E s \in DOMAIN bs : /\ ServiceOf(bs[s]) = "power"
                                  /\ bs[s].isActive
                                  /\ Serves(bs[s], bs[b])
    /\ bs[b].hasWater
         <=> \E s \in DOMAIN bs : /\ ServiceOf(bs[s]) = "water"
                                  /\ bs[s].isActive
                                  /\ bs[s].isPowered
                                  /\ Serves(bs[s], bs[b])

\* C4: after calculateUtilities every building's isPowered and hasWater
\* flags satisfy the coverage rule.
C4_CoverageAfterRecompute ==
  lastOp = Op("calculateUtilities", "timer") => CoverageRule(buildings)

\* after a recomputation: a powered tower waters a building, and some
\* building lies outside the tower's radius and has no water
C4_Witness ==
  /\ lastOp = Op("calculateUtilities", "timer")
  /\ \E b \in DOMAIN buildings :
       /\ ServiceOf(buildings[b]) = NoService
       /\ buildings[b].isPowered
       /\ buildings[b].hasWater
  /\ \E b \in DOMAIN buildings : ~buildings[b].hasWater

\* C5: when placeBuilding or removeBuilding returns, the flags of all
\* buildings already satisfy the coverage rule for the new building set.
C5_CoverageWhenMutationReturns ==
  lastOp \in {Op("placeBuilding", "building"), Op("removeBuilding", "removed")}
    /\ impl = "store"
    => CoverageRule(buildings)

\* placeBuilding has returned and its recomputation is still pending
C5_Witness ==
  /\ lastOp = Op("placeBuilding", "building")
  /\ impl = "store"
  /\ timers > 0

\* the systems an update call has to invoke
EnabledSystems == {n \in Range(systems) : enabled[n]}

\* C6: an update call invokes exactly the registered systems whose enabled
\* flag is true, each once, in non-decreasing priority order.
C6_EnabledSystemsInPriorityOrder ==
  tickResult.outcome # "none"
    => /\ Range(invoked) = EnabledSystems
       /\ Len(invoked) = Cardinality(EnabledSystems)
       /\ \A i, j \in 1..Len(invoked) :
            i < j => priority[invoked[i]] <= priority[invoked[j]]

\* an update call has run with a system disabled and with two enabled
\* systems registered against their priority order
C6_Witness ==
  /\ tickResult.outcome = "returned"
  /\ tickFaults = {}
  /\ \E n \in Range(systems) : ~enabled[n]
  /\ \E i, j \in 1..Len(systems) :
       /\ i < j
       /\ enabled[systems[i]] /\ enabled[systems[j]]
       /\ priority[systems[i]] > priority[systems[j]]

\* C7: a fault raised by one system's update does not reach the caller of
\* update, and every other enabled system is still invoked in that tick.
C7_FaultIsolation ==
  tickResult.outcome # "none" /\ tickFaults \cap EnabledSystems # {}
    => /\ tickResult.outcome = "returned"
       /\ EnabledSystems \subseteq Range(invoked)

\* an update call in which an enabled system raised, with another enabled
\* system ordered after it
C7_Witness ==
  /\ tickResult.outcome # "none"
  /\ \E f \in tickFaults \cap EnabledSystems :
       \E n \in EnabledSystems : priority[n] > priority[f]

\* what a snapshot has to bring back of the tiles, buildings and roads
TileView(ts) ==
  {[position |-> ts[k].position, buildingId |-> ts[k].buildingId,
    roadId |-> ts[k].roadId, zone |-> ts[k].zone] : k \in DOMAIN ts}

BuildingView(bs) ==
  {[id |-> bs[b].id, definitionId |-> bs[b].definitionId,
    position |-> bs[b].position, rotation |-> bs[b].rotation,
    occupancy |-> bs[b].occupancy] : b \in DOMAIN bs}

RoadView(rs) ==
  {[id |-> rs[r].id, position |-> rs[r].position,
    connections |-> ConnectedTo(rs[r])] : r \in DOMAIN rs}

\* C8: loading the snapshot that save / serialize produces gives back the
\* same tiles (position, occupant ids, zone), the same buildings (id,
\* definition, position, rotation, occupancy) and the same roads (id,
\* position, connections).
C8_SaveLoadRoundTrip ==
  [][ lastOp' = Op("load", "loaded")
        => /\ TileView(tiles') = TileView(tiles)
           /\ BuildingView(buildings') = BuildingView(buildings)
           /\ RoadView(roads') = RoadView(roads)
           /\ TileView(gridTiles') = TileView(gridTiles)
           /\ BuildingView(wmBuildings') = BuildingView(wmBuildings)
           /\ RoadView(wmRoads') = RoadView(wmRoads)
    ]_vars

\* a snapshot of a city with two connected roads has been loaded
C8_Witness ==
  /\ lastOp = Op("load", "loaded")
  /\ \E a, b \in DOMAIN RoadsOf(impl, roads, wmRoads) :
       AdjacentRoads(RoadsOf(impl, roads, wmRoads)[a],
                     RoadsOf(impl, roads, wmRoads)[b])

\* C9: a load / deserialize of a snapshot with a missing tiles, buildings or
\* roads array leaves the tiles, buildings and roads in memory as they were.
C9_LoadFailsClosed ==
  [][ lastOp' = Op("load", "threw")
        => /\ tiles' = tiles
           /\ buildings' = buildings
           /\ roads' = roads
           /\ gridTiles' = gridTiles
           /\ wmBuildings' = wmBuildings
           /\ wmRoads' = wmRoads
    ]_vars

\* a load of a broken snapshot has thrown in a city that holds a building
C9_Witness ==
  /\ lastOp = Op("load", "threw")
  /\ \/ impl = "store" /\ DOMAIN buildings # {}
     \/ impl = "world" /\ gridTiles = EmptyMap /\ DOMAIN wmBuildings # {}

\* C10: a placeBuilding call that returns a building decreases the balance
\* by the definition's cost, adds that one building and changes no other,
\* and sets buildingId to the new id on every tile of the footprint and on
\* no other tile.
C10_SuccessfulPlaceBuilding ==
  [][ lastOp' = Op("placeBuilding", "building") /\ nextId' # nextId
        /\ impl = "store"
        => /\ nextId \notin DOMAIN buildings
           /\ DOMAIN buildings' = DOMAIN buildings \cup {nextId}
           /\ \A b \in DOMAIN buildings : buildings'[b] = buildings[b]
           /\ buildings'[nextId].id = nextId
           /\ balance' = balance
                           - DEFAULT_BUILDINGS[buildings'[nextId].definitionId].cost
           /\ DOMAIN tiles' = DOMAIN tiles
           /\ \A k \in DOMAIN tiles :
                /\ tiles[k].buildingId # nextId
                /\ tiles'[k].buildingId =
                     IF [x |-> k[1], z |-> k[2]]
                          \in FootprintOf(buildings'[nextId])
                     THEN nextId
                     ELSE tiles[k].buildingId
           /\ \A p \in FootprintOf(buildings'[nextId]) :
                <<p.x, p.z>> \in DOMAIN tiles
    ]_vars

\* a 2 x 2 building has been placed next to an older building
C10_Witness ==
  /\ lastOp = Op("placeBuilding", "building")
  /\ impl = "store"
  /\ nextId - 1 \in DOMAIN buildings
  /\ DEFAULT_BUILDINGS[buildings[nextId - 1].definitionId].width = 2
  /\ Cardinality({k \in DOMAIN tiles : tiles[k].buildingId = nextId - 1}) = 4
  /\ \E k \in DOMAIN tiles : tiles[k].buildingId \notin {NoId, nextId - 1}

(* C11: a placement the balance cannot pay for is rejected as a value.     *)
(* Every placeBuilding call made with a balance below the definition's     *)
(* cost, and every placeRoad call made with a balance below the road cost, *)
(* returns null and leaves tiles, buildings, roads and balance as they     *)
(* were.                                                                   *)
C11_InsufficientFundsRejected ==
  [][ /\ \A d \in DefinitionIds, p \in InputPositions, r \in Rotations :
           (balance < getBuildingDefinition(d).cost /\ PlaceBuilding(d, p, r))
             => /\ lastOp' = Op("placeBuilding", "null")
                /\ UNCHANGED <<tiles, buildings, roads, balance>>
      /\ \A p \in InputPositions :
           (balance < roadCost /\ PlaceRoad(p))
             => /\ lastOp' = Op("placeRoad", "null")
                /\ UNCHANGED <<tiles, buildings, roads, balance>>
    ]_vars

\* a placeRoad call has returned null in a store whose balance is below the
\* road cost while every input tile it could have named is free of buildings
C11_Witness ==
  /\ impl = "store"
  /\ lastOp = Op("placeRoad", "null")
  /\ balance < roadCost
  /\ \E p \in InputPositions :
       /\ HasTile(p)
       /\ getTile(p).buildingId = NoId
       /\ getTile(p).roadId = NoId

\* a tile setZone must refuse: it does not exist, or it holds a building or a
\* road
Unzonable(ts, p) ==
  \/ gridPositionToKey(p) \notin DOMAIN ts
  \/ ts[gridPositionToKey(p)].buildingId # NoId
  \/ ts[gridPositionToKey(p)].roadId # NoId

ZoneInputs == ZonePositions \X (Zones \cup {NoZone})

(* C12: setZone on a tile that does not exist or that holds a building or  *)
(* a road returns false and changes no tile; on any other tile it gives    *)
(* the tile the requested zone and changes no other tile, so it succeeds   *)
(* only on unoccupied tiles.                                               *)
C12_SetZoneFailsClosed ==
  [][ \A in \in ZoneInputs :
        (SetZone(in[1], in[2]) \/ WorldSetZone(in[1], in[2]))
          => LET before == TilesOf(impl, tiles, gridTiles)
                 after == TilesOf(impl, tiles', gridTiles')
                 key == gridPositionToKey(in[1])
             IN IF Unzonable(before, in[1])
                THEN /\ lastOp'.result = "false"
                     /\ after = before
                ELSE /\ after = [before EXCEPT ![key].zone = in[2]]
    ]_vars

\* the store's setZone has returned although every tile it could have named
\* is missing or occupied, so the call was a refused one
C12_Witness ==
  /\ impl = "store"
  /\ lastOp.op = "setZone"
  /\ \A p \in ZonePositions : Unzonable(tiles, p)

\* the (day, hour) of a clock
HourOf(clock) == <<clock[1], clock[2]>>
DayOf(clock) == clock[1]

\* this step is a tick, and the clocks of all ticks up to it are
\* non-decreasing
MonotoneTick == (\E picks \in Picks : Tick(picks)) /\ clockLog'.monotone

\* no earlier tick fell in the (day, hour) of this one
FirstTickOfHour ==
  clockLog.last = NoClock \/ HourOf(clockLog.last) # HourOf(ClockOf(gameTime))

(* C13: over ticks with a non-decreasing clock, the economy system applies *)
(* its income/expense/balance step on exactly the ticks that are the first *)
(* of their simulated (day, hour), and on no later tick of that hour.      *)
C13_EconomyOncePerHour ==
  [][ MonotoneTick => ("economy" \in ran' <=> FirstTickOfHour) ]_vars

\* a tick has applied the economy step to a city that has expenses, after an
\* earlier tick of another hour
C13_Witness ==
  /\ "economy" \in ran
  /\ economy.expenses > 0
  /\ clockLog.monotone
  /\ clockLog.last = ClockOf(gameTime)
  /\ gameTime.totalMinutes > 720

\* no earlier tick fell in the day of this one (the day of gameTime never
\* decreases: advanceTime only adds minutes)
FirstTickOfDay ==
  clockLog.last = NoClock \/ DayOf(clockLog.last) # gameTime.day

(* C14: the zoning system and the population system each apply their daily *)
(* step on exactly the ticks that are the first of their simulated day,    *)
(* and on no later tick of that day.                                       *)
C14_DailySystemsOncePerDay ==
  [][ (\E picks \in Picks : Tick(picks))
        => /\ "zoning" \in ran' <=> FirstTickOfDay
           /\ "population" \in ran' <=> FirstTickOfDay ]_vars

\* a later tick of day 2 has applied no step: the daily steps of day 2 ran on
\* an earlier tick of that day
C14_Witness ==
  /\ ran = {}
  /\ gameTime.day = 2
  /\ clockLog.last = ClockOf(gameTime)
  /\ lastUpdate.zoning = 2
  /\ lastUpdate.population = 2

\* a tick on which the population system applies its daily step
PopulationTick == (\E picks \in Picks : Tick(picks)) /\ "population" \in ran'

\* the residential buildings of positive capacity
Housing(bs) ==
  {i \in InZone(bs, "residential") :
     getBuildingDefinition(bs[i].definitionId).capacity > 0}

(* C15: the employment figures a daily population tick writes are computed *)
(* from the population total that the same tick's growth stage produced:   *)
(* workers is 60% of the new total, and unemployed and employmentRate      *)
(* follow from that workers figure.                                        *)
C15_EmploymentFromSameTick ==
  [][ PopulationTick
        => /\ population'.workers =
                QFloor(QMul(QInt(population'.total), Q(6, 10)))
           /\ population'.employed <= population'.workers
           /\ population'.unemployed =
                population'.workers - population'.employed
           /\ population'.employmentRate =
                IF population'.workers > 0
                THEN Q(population'.employed, population'.workers)
                ELSE QInt(0) ]_vars

\* a daily tick has grown the total, so the workers figure of the total
\* before the tick differs from the one the tick wrote
C15_Witness ==
  /\ lastOp.op = "update"
  /\ "population" \in ran
  /\ population.growth > 0
  /\ population.workers > 0
  /\ QFloor(QMul(QInt(population.total - population.growth), Q(6, 10)))
       # population.workers

\* PopulationSystem: the realized residential capacity, the sum of
\* capacity x occupancy / 100 over the residential buildings, rounded down
RealizedCapacity(bs) ==
  QFloor(QSum([i \in InZone(bs, "residential") |->
                 QMul(QInt(getBuildingDefinition(bs[i].definitionId).capacity),
                      occupancyRate(bs[i]))]))

(* C16: after every daily population tick the population total is at most  *)
(* the realized residential capacity; with no residential building the     *)
(* total stays 0.                                                          *)
C16_TotalWithinCapacity ==
  [][ PopulationTick
        => population'.total <= RealizedCapacity(buildings') ]_vars

\* a daily tick over a city without residential buildings has left settlers
C16_Witness ==
  /\ lastOp.op = "update"
  /\ "population" \in ran
  /\ InZone(buildings, "residential") = {}
  /\ population.total > 0

(* C17: a daily population tick that starts with a total of 0, at least    *)
(* one residential building of positive capacity and positive residential  *)
(* demand leaves a total above 0.                                          *)
C17_BootstrapMigration ==
  [][ ( /\ PopulationTick
        /\ population.total = 0
        /\ Housing(buildings) # {}
        /\ QLess(QInt(0), zoneDemand.residential) )
        => population'.total > 0 ]_vars

\* the first daily tick ever (the total was 0 and the demand the initial,
\* positive one) has run over a city with housing and left residents
C17_Witness ==
  /\ lastOp.op = "update"
  /\ "population" \in ran
  /\ lastUpdate.population = 1
  /\ Housing(buildings) # {}
  /\ population.migration > 0
  /\ population.total > 0

\* a step of either growth path: the hourly growZones or a scheduler tick
GrowthStep == SimulateCity \/ \E picks \in Picks : Tick(picks)

\* the position is within the radius of an active power source and of an
\* active, powered water source of bs
Served(bs, position) ==
  /\ isInRange(bs, position,
               SelectSeq(Sources(bs, "power"), LAMBDA b : bs[b].isActive))
  /\ isInRange(bs, position,
               SelectSeq(Sources(bs, "water"),
                         LAMBDA b : bs[b].isActive /\ bs[b].isPowered))

(* C18: every building a growth step creates stands on a tile that, when   *)
(* the step began, was zoned, held no building and no road, was within     *)
(* radius of an active power source and of an active powered water source  *)
(* (by the buildings' flags or by a fresh utility pass), and whose zone's   *)
(* demand, as the step computed it, is above the threshold of 30.          *)
C18_GrowthOnlyOnServedDemandedTiles ==
  [][ GrowthStep
        => \A b \in DOMAIN buildings' \ DOMAIN buildings :
             LET k == gridPositionToKey(buildings'[b].position)
             IN /\ k \in DOMAIN tiles
                /\ tiles[k].zone # NoZone
                /\ tiles[k].buildingId = NoId
                /\ tiles[k].roadId = NoId
                /\ \/ Served(buildings, tiles[k].position)
                   \/ Served(calculateUtilities(buildings), tiles[k].position)
                /\ QLess(QInt(DevelopThreshold),
                         zoneDemand'[tiles[k].zone]) ]_vars

\* the scheduler's zoning step has developed a tile of a city that holds no
\* power source and no water source
C18_Witness ==
  /\ lastOp = Op("update", "developed")
  /\ Sources(buildings, "power") = << >>
  /\ Sources(buildings, "water") = << >>

\* the balance the economy system leaves when it runs first in this tick
BalanceAfterEconomy ==
  LET st == EconomyUpdate(
              [tiles |-> tiles, buildings |-> buildings,
               balance |-> balance, balance24 |-> balance24,
               economy |-> economy, population |-> population,
               zoneDemand |-> zoneDemand,
               initialEconomy |-> initialEconomy, nextId |-> nextId,
               timers |-> timers, lastUpdate |-> lastUpdate, ran |-> {},
               placed |-> NoId, spawned |-> << >>,
               economyUpdated |-> NoPayload], gameTime)
  IN <<st.balance, st.balance24>>

(* C19: organic growth is free: the hourly growZones leaves the balance     *)
(* unchanged, and a scheduler tick whose zoning step runs leaves the        *)
(* balance the economy step of that tick produced, whatever it spawns.      *)
C19_GrowthIsFree ==
  [][ /\ SimulateCity => balance' = balance
      /\ ((\E picks \in Picks : Tick(picks)) /\ "zoning" \in ran')
           => <<balance', balance24'>> = BalanceAfterEconomy ]_vars

\* the zoning step of the first tick of a new city (no building, so the
\* economy step moved no money) has spawned a building
C19_Witness ==
  /\ lastOp = Op("update", "developed")
  /\ lastUpdate.zoning = 1
  /\ Cardinality(DOMAIN buildings) = 1

\* the road cells next to the road cell k
RoadNeighbors(S, k) ==
  {<<k[1], k[2] - 1>>, <<k[1], k[2] + 1>>, <<k[1] - 1, k[2]>>,
   <<k[1] + 1, k[2]>>} \cap S

\* one round of a breadth-first walk over the road cells S: w.frontier holds
\* the cells at w.n steps from the start, w.answer the number of steps to
\* goal once known, -1 when no chain of road cells reaches it
WalkStep(S, w, goal) ==
  IF w.answer # << >> THEN w
  ELSE IF goal \in w.frontier THEN [w EXCEPT !.answer = <<w.n>>]
  ELSE IF w.frontier = {} THEN [w EXCEPT !.answer = <<0 - 1>>]
  ELSE LET next == UNION {RoadNeighbors(S, k) : k \in w.frontier} \ w.seen
       IN [seen |-> w.seen \cup next, frontier |-> next, n |-> w.n + 1,
           answer |-> << >>]

RECURSIVE WalkRun(_, _, _, _)
WalkRun(S, w, goal, rounds) ==
  IF rounds = 0 \/ w.answer # << >> THEN w
  ELSE IF rounds = 1 THEN WalkStep(S, w, goal)
       ELSE WalkRun(S, WalkRun(S, w, goal, rounds \div 2), goal,
                    rounds - rounds \div 2)

\* the least number of 4-directional road steps from a to b over S, or -1
RoadSteps(S, a, b) ==
  WalkRun(S, [seen |-> {a}, frontier |-> {a}, n |-> 0, answer |-> << >>], b,
          Cardinality(S) + 2).answer[1]

(* C20: when the start and end cells are road cells joined by a chain of   *)
(* orthogonally adjacent road cells, findPath reports found, its cost is   *)
(* the least number of 4-directional road steps between them, and its path *)
(* has cost + 1 cells, begins at the start cell, ends at the end cell and  *)
(* has every consecutive pair of cells orthogonally adjacent.              *)
C20_FindPathShortest ==
  LET S == Range(roadLayout)
      s == gridPositionToKey(query.start)
      e == gridPositionToKey(query.end)
  IN (pathResult # NoResult /\ s \in S /\ e \in S /\ RoadSteps(S, s, e) >= 0)
       => LET result == pathResult[1]
              path == result.path
          IN /\ result.found
             /\ result.cost = RoadSteps(S, s, e)
             /\ Len(path) = result.cost + 1
             /\ path[1] = query.start
             /\ path[Len(path)] = query.end
             /\ \A i \in 1..(Len(path) - 1) :
                  manhattanDistance(path[i], path[i + 1]) = 1

\* findPath has answered for the straight line of five roads, asked from one
\* end to the other, and found a way of cost 4
C20_Witness ==
  /\ Range(roadLayout) = {<<x, 0>> : x \in 0..4}
  /\ query = [start |-> Pos(0, 0), end |-> Pos(4, 0)]
  /\ pathResult # NoResult
  /\ pathResult[1].found
  /\ pathResult[1].cost = 4

(* C21: every call of findPath returns, within the passes the expansion   *)
(* cap allows, a result that is either found or the explicit not-found     *)
(* result (found = false, empty path, cost 0); it is the not-found result  *)
(* when the roads Map is empty, when the start and end road cells are      *)
(* joined by no chain of orthogonally adjacent road cells, and when the    *)
(* shortest chain is longer than the cap of 1000 expanded nodes.           *)
C21_FindPathFailsExplicitly ==
  LET S == Range(roadLayout)
      s == gridPositionToKey(query.start)
      e == gridPositionToKey(query.end)
  IN /\ pathResult # NoResult
          => /\ Len(pathResult) = 1
             /\ pathResult[1].found \in BOOLEAN
             /\ ~pathResult[1].found => pathResult[1] = NotFound
     /\ (pathResult # NoResult /\ S = {}) => pathResult[1] = NotFound
     /\ (pathResult # NoResult /\ s \in S /\ e \in S /\ RoadSteps(S, s, e) < 0)
          => /\ ~pathResult[1].found
             /\ pathResult[1].path = << >>
             /\ pathResult[1].cost = 0
     /\ (pathResult # NoResult /\ s \in S /\ e \in S
           /\ RoadSteps(S, s, e) > MaxExpansions)
          => pathResult[1] = NotFound

\* findPath has answered not-found for the line of five roads without its
\* middle road, asked from one end to the other
C21_Witness ==
  /\ Range(roadLayout) = {<<0, 0>>, <<1, 0>>, <<3, 0>>, <<4, 0>>}
  /\ query = [start |-> Pos(0, 0), end |-> Pos(4, 0)]
  /\ pathResult = <<NotFound>>

(* C22: a spawn step calls createVehicle at most once, and when that call's *)
(* path query reports not-found the vehicles after the spawn step are the   *)
(* vehicles before it.                                                      *)
C22_NotFoundSpawnsNothing ==
  /\ spawnLog.calls <= 1
  /\ (spawnLog.calls = 1 /\ ~spawnLog.found)
       => spawnLog.after = spawnLog.before

\* a spawn between two roads no chain of roads joins was tried and left the
\* vehicles alone
C22_Witness ==
  /\ roadLayout = <<<<0, 0>>, <<3, 0>>>>
  /\ spawnLog.calls = 1
  /\ ~spawnLog.found
  /\ findPath(roadLayout, HousePosition, Pos(3, 1)) = NotFound
  /\ spawnLog.after = spawnLog.before
  /\ vehicles = << >>

\* the vehicle of the id before and after an update that keeps it
VehicleIds(vs) == {vs[i].id : i \in 1..Len(vs)}
VehicleOf(vs, id) == vs[CHOOSE i \in 1..Len(vs) : vs[i].id = id]
LastIndex(vehicle) == Len(vehicle.path) - 1

(* C26: in the update in which a vehicle's path index reaches the last     *)
(* waypoint of its path the vehicle becomes parked, and a vehicle that is  *)
(* parked before an update is not among the vehicles after it.             *)
C26_ParkedOnArrival ==
  [][\A id \in VehicleIds(vehicles) :
       /\ (/\ id \in VehicleIds(vehicles')
           /\ VehicleOf(vehicles, id).currentPathIndex
                < LastIndex(VehicleOf(vehicles, id))
           /\ VehicleOf(vehicles', id).currentPathIndex
                = LastIndex(VehicleOf(vehicles', id)))
            => VehicleOf(vehicles', id).state = "parked"
       /\ VehicleOf(vehicles, id).state = "parked"
            => id \notin VehicleIds(vehicles')]_vars

\* a vehicle stands at the last waypoint of its path and is not parked
C26_Witness ==
  \E i \in 1..Len(vehicles) :
    /\ vehicles[i].currentPathIndex = LastIndex(vehicles[i])
    /\ vehicles[i].state # "parked"

\* the trafficLoad written to the road of the key; 0 for a key without road
LoadAt(loads, key) == IF key \in DOMAIN loads THEN loads[key] ELSE QInt(0)

\* the key of the waypoint the vehicle is heading for
NextWaypoint(vehicle) ==
  gridPositionToKey(vehicle.path[vehicle.currentPathIndex + 2])

(* C27: a vehicle that an update moves towards its next waypoint is set to *)
(* waiting (its speed halved) in that update exactly when the trafficLoad  *)
(* of the waypoint's road, the normalized vehicle density written by the   *)
(* previous update, exceeds the congestion threshold 0.7.                  *)
C27_SlowedOnlyAboveThreshold ==
  [][\A id \in VehicleIds(vehicles) \cap VehicleIds(vehicles') :
       LET before == VehicleOf(vehicles, id)
           after == VehicleOf(vehicles', id)
       IN (/\ before.state # "parked"
           /\ before.currentPathIndex < LastIndex(before)
           /\ after.currentPathIndex = before.currentPathIndex)
            => (after.state = "waiting"
                  <=> QLess(CONGESTION_THRESHOLD,
                            LoadAt(trafficLoad, NextWaypoint(before))))]_vars

\* a waiting vehicle heads for a road whose trafficLoad is below the
\* threshold
C27_Witness ==
  \E i \in 1..Len(vehicles) :
    /\ vehicles[i].state = "waiting"
    /\ vehicles[i].currentPathIndex < LastIndex(vehicles[i])
    /\ QLess(LoadAt(trafficLoad, NextWaypoint(vehicles[i])),
             CONGESTION_THRESHOLD)

\* the isPowered and hasWater values of the buildings
Statuses(bs) ==
  [b \in DOMAIN bs |-> <<bs[b].isPowered, bs[b].hasWater>>]

(* C23: from every state, a second run of calculateUtilities right after a *)
(* first gives every building the isPowered and hasWater values the first *)
(* run gave it.                                                            *)
C23_UtilitiesIdempotent ==
  Statuses(calculateUtilities(calculateUtilities(buildings)))
    = Statuses(calculateUtilities(buildings))

\* the stored statuses are those of a run that powered and watered a
\* building, and a further run gives the same
C23_Witness ==
  /\ lastOp = Op("calculateUtilities", "timer")
  /\ \E b \in DOMAIN buildings :
       buildings[b].isPowered /\ buildings[b].hasWater
  /\ \E b \in DOMAIN buildings : ~buildings[b].hasWater
  /\ Statuses(calculateUtilities(buildings)) = Statuses(buildings)

\* the balance in 24ths of a unit
Balance24(whole, part) == whole * 24 + part

(* C24: a tick in which the economy step runs changes the balance by       *)
(* exactly (income - expenses) / 24, where income is the sum over the zoned *)
(* buildings of (capacity or jobs) x occupancy / 100 x the zone's per-unit  *)
(* rate x the zone's tax rate / 100.                                        *)
C24_HourlyBalanceChange ==
  [][((\E picks \in Picks : Tick(picks)) /\ "economy" \in ran')
       => QInt(Balance24(balance', balance24') - Balance24(balance, balance24))
            = QSub(incomeBeforeFloor(buildings, economy.taxRates),
                   QInt(calculateExpenses(buildings)))]_vars

\* the economy step ran on a building whose contribution is not whole
C24_Witness ==
  /\ "economy" \in ran
  /\ lastOp = Op("update", "ticked")
  /\ incomeBeforeFloor(buildings, economy.taxRates)
       # QInt(calculateIncome(buildings, economy.taxRates))

(* C30: in every reachable state, after setTaxRate calls and loads         *)
(* included, the stored tax rate of each zone is between 0 and 20.         *)
C30_TaxRatesInRange ==
  \A zone \in DOMAIN economy.taxRates :
    /\ MIN_TAX_RATE <= economy.taxRates[zone]
    /\ economy.taxRates[zone] <= MAX_TAX_RATE

\* a load has kept a rate above the maximum that setTaxRate stored
C30_Witness ==
  /\ lastOp = Op("load", "loaded")
  /\ economy.taxRates.residential > MAX_TAX_RATE

\* the keys of the roads of rs on the four cells next to road r
AdjacentKeys(rs, r) ==
  {KeyOf(rs[o]) : o \in {b \in DOMAIN rs : AdjacentRoads(r, rs[b])}}

\* every road lists the roads next to it, each once, and nothing else
ConnectionsCurrent(rs) ==
  \A a \in DOMAIN rs :
    /\ ConnectedTo(rs[a]) = AdjacentKeys(rs, rs[a])
    /\ Len(rs[a].connections) = Cardinality(AdjacentKeys(rs, rs[a]))

(* C25: in every state reached by placeRoad, removeRoad and load, the      *)
(* connections of each road list exactly the positions of the roads on its *)
(* four orthogonally adjacent cells.                                        *)
C25_ConnectionsAreAdjacency ==
  ConnectionsCurrent(RoadsOf(impl, roads, wmRoads))

\* a load has left two adjacent roads that do not list each other
C25_Witness ==
  /\ lastOp = Op("load", "loaded")
  /\ \E a, b \in DOMAIN RoadsOf(impl, roads, wmRoads) :
       /\ AdjacentRoads(RoadsOf(impl, roads, wmRoads)[a],
                        RoadsOf(impl, roads, wmRoads)[b])
       /\ KeyOf(RoadsOf(impl, roads, wmRoads)[b])
            \notin ConnectedTo(RoadsOf(impl, roads, wmRoads)[a])

\* the systems that throttle themselves by the clock
Throttled == {"economy", "zoning", "population"}

(* C28: the first tick after SimulationManager.reset or after              *)
(* GameEngine.resetGame runs the step of the economy, zoning and           *)
(* population systems, whatever the clock shows.                           *)
C28_ResetClearsMarkers ==
  [][(/\ lastOp.op \in {"reset", "resetGame"}
      /\ \E picks \in Picks : Tick(picks))
       => Throttled \subseteq ran']_vars

ZoneNames == {"residential", "commercial", "industrial"}

\* the amounts a daily step adds to a zone's demand before the decay
Nudges(zone) ==
  CASE zone = "residential" -> {5, 0 - 3, 0}
    [] zone = "commercial" -> {4, 0 - 2, 0}
    [] zone = "industrial" -> {5, 0 - 2, 0}

DemandInRange ==
  \A zone \in ZoneNames :
    /\ QLeq(QInt(DEMAND_MIN), zoneDemand[zone])
    /\ QLeq(zoneDemand[zone], QInt(DEMAND_MAX))

(* C29: from the initial demand (50, 30, 20), every demand value stays in  *)
(* [-100, 100], and each daily zoning step sets every demand to the clamp  *)
(* of the decayed nudged value: clamp((demand + nudge) * 9/10, -100, 100). *)
C29_DemandNudgeDecayClamp ==
  /\ []DemandInRange
  /\ [][((\E picks \in Picks : Tick(picks)) /\ "zoning" \in ran')
         => \A zone \in ZoneNames :
              \E nudge \in Nudges(zone) :
                zoneDemand'[zone] =
                  clamp(QMul(QAdd(zoneDemand[zone], QInt(nudge)),
                             Q(9, 10)),
                        QInt(0 - 100), QInt(100))]_vars

\* the zoning step of the fourth day has run, after steps that lowered the
\* residential demand and steps that raised the commercial demand
C29_Witness ==
  /\ "zoning" \in ran
  /\ lastUpdate.zoning >= 4
  /\ QLess(zoneDemand.residential, QInt(30))
  /\ QLess(QInt(30), zoneDemand.commercial)

(* C31: the history holds at most 100 events, and they are the most        *)
(* recently published events in publication order: after n publications    *)
(* it is the events n - 99 .. n (all n events while n <= 100), oldest first. *)
C31_HistoryBounded ==
  LET history == eventBus.eventHistory
      n == eventBus.published
  IN /\ Len(history) <= 100
     /\ Len(history) = IF n < 100 THEN n ELSE 100
     /\ \A k \in DOMAIN history : history[k].id = n - Len(history) + k

\* more than 100 events were published, one of them by a callback, and the
\* oldest two have left the history
C31_Witness ==
  /\ eventBus.published = 102
  /\ eventBus.calls["republishFirst"] > 0
  /\ Len(eventBus.eventHistory) = 100
  /\ eventBus.eventHistory[1].id = 3

(* C32: every event published for a type is delivered to every subscriber  *)
(* of that type whose unsubscribe function has not been called, whatever   *)
(* subscribe and unsubscribe calls were made for other callbacks.          *)
C32_SubscribedReceives ==
  [][\A t \in EventTypes :
       Publish(t) =>
         \A i \in DOMAIN eventBus.subscriptions :
           LET s == eventBus.subscriptions[i]
           IN (s.type = t /\ ~s.unsubscribed)
                => eventBus'.calls[s.fn.callback]
                     > eventBus.calls[s.fn.callback]]_vars

(* C35: a callback registered with subscribeOnce is invoked at most once   *)
(* through that registration, also when it publishes an event of the same  *)
(* type while it runs and when it throws on its first invocation.          *)
C35_OnceAtMostOnce ==
  \A i \in DOMAIN eventBus.subscriptions :
    eventBus.subscriptions[i].fn.kind = "once"
      => eventBus.subscriptions[i].invoked <= 1

(* C33: in the store, a tile's buildingId is b exactly when building b     *)
(* exists and the tile lies inside b's width x depth footprint, in every   *)
(* state reached by placement, organic growth and removal.                 *)
C33_TilesMatchBuildings ==
  impl = "store" =>
    \A k \in DOMAIN tiles :
      \A b \in (DOMAIN buildings \cup {tiles[k].buildingId}) \ {NoId} :
        tiles[k].buildingId = b
          <=> /\ b \in DOMAIN buildings
              /\ Pos(k[1], k[2]) \in FootprintOf(buildings[b])

(* C34: for any interleaving of start(), stop() and frame callbacks, at    *)
(* most one loop callback is queued at any time.                           *)
C34_OneLoopChain == gameLoop.pending <= 1

(* C37: after GameEngine.resume(), while frames keep arriving and no other *)
(* control call is made, a game minute eventually elapses.                 *)
C37_ResumeAdvancesTime ==
  \A n \in 0..(MinuteCycle - 1) :
    (gameLoop.lastCall = "resume" /\ gameLoop.isRunning
       /\ gameLoop.minuteCount = n)
      ~> (gameLoop.minuteCount # n \/ gameLoop.lastCall # "resume")
(* C36: the clock never moves backwards: after every advanceTime(n) with   *)
(* n >= 0 the (day, hour, minute) is not earlier than before, the hour is  *)
(* in 0..23 and the minute in 0..59.                                       *)
C36_ClockNeverBackwards ==
  [][gameTime' # gameTime =>
       /\ ClockLeq(ClockOf(gameTime), ClockOf(gameTime'))
       /\ gameTime'.hour \in 0..23
       /\ gameTime'.minute \in 0..59]_vars

(* C38: right after cityStore.reset(), whatever ticks ran before it, the   *)
(* balance is the starting balance, income and expenses are 0, the         *)
(* population total is 0 and the zone demand is (50, 30, 20).              *)
C38_ResetRestoresAggregates ==
  lastOp = Op("resetGame", "done")
    => /\ balance = StartingBalance
       /\ balance24 = 0
       /\ economy.income = 0
       /\ economy.expenses = 0
       /\ population.total = 0
       /\ zoneDemand = initialZoneDemand

\* the economy:updated event the tick with these draws publishes, if any
economyUpdatedBy(picks) ==
  RunSystems([tiles |-> tiles, buildings |-> buildings,
              balance |-> balance, balance24 |-> balance24,
              economy |-> economy, population |-> population,
              zoneDemand |-> zoneDemand,
              initialEconomy |-> initialEconomy, nextId |-> nextId,
              timers |-> timers, lastUpdate |-> lastUpdate, ran |-> {},
              placed |-> NoId, spawned |-> << >>,
              economyUpdated |-> NoPayload],
             sorted(systems, enabled), 1, gameTime, picks).economyUpdated

(* C39: the economy:updated event of an hourly economy step carries the    *)
(* balance the store holds when the event is delivered, that is the        *)
(* balance after the step's (income - expenses) / 24 was added.            *)
C39_EventCarriesNewBalance ==
  [][ \A picks \in Picks :
        (Tick(picks) /\ economyUpdatedBy(picks) # NoPayload)
          => /\ economyUpdatedBy(picks).balance
                  = economyUpdatedBy(picks).store.balance
             /\ economyUpdatedBy(picks).balance24
                  = economyUpdatedBy(picks).store.balance24 ]_vars

(* C40: after every daily population tick the employment figures are      *)
(* consistent: workers = floor(0.6 x total), 0 <= employed <= workers,     *)
(* unemployed = workers - employed >= 0, employmentRate = employed /       *)
(* workers (0 when there are no workers) within [0, 1], and total >= 0.    *)
C40_EmploymentConsistent ==
  [][ PopulationTick
        => /\ population'.total >= 0
           /\ population'.workers =
                QFloor(QMul(QInt(population'.total), Q(6, 10)))
           /\ 0 <= population'.employed
           /\ population'.employed <= population'.workers
           /\ population'.unemployed =
                population'.workers - population'.employed
           /\ population'.unemployed >= 0
           /\ population'.employmentRate =
                IF population'.workers > 0
                THEN Q(population'.employed, population'.workers)
                ELSE QInt(0)
           /\ QLeq(QInt(0), population'.employmentRate)
           /\ QLeq(population'.employmentRate, QInt(1)) ]_vars

\* a daily tick has left workers of whom some, not all, have a job
C40_Witness ==
  /\ lastOp.op = "update"
  /\ "population" \in ran
  /\ population.employed > 0
  /\ population.unemployed > 0

====
